---- MODULE Spec2Model ----
(***************************************************************************)
(* Maps Link Resolution pipeline of cuisine-wheel-sg                       *)
(* (src/server/googleMapsHelper.ts): URL validation, short-link            *)
(* expansion, place-info extraction, place-id resolution and place-details *)
(* fetching, as one run of resolveAndParseMapsUrl.                         *)
(*                                                                         *)
(* JavaScript strings are TLA+ strings; a character is a string of length  *)
(* one.  A value that may be null/undefined is a sequence of length at     *)
(* most one: None is <<>>, Some(v) is <<v>>.  A JavaScript number is an    *)
(* integer counting units of 10^-FracDigits.                               *)
(***************************************************************************)
EXTENDS Integers, Sequences, FiniteSets, TLC

\* ------------------------------------------------------------------------
\* Bounds of the model
\* ------------------------------------------------------------------------
MaxResults == 2      \* longest result list a search response carries
FracDigits == 4      \* decimal places a number keeps
MaxCalls == 3        \* router calls started in one behaviour
MaxActive == 2       \* router calls in flight at the same time
MaxRuns == 2         \* concurrent runs of the pipeline
MaxCallbacks == 2    \* requests to /api/oauth/callback in one behaviour
MaxSpins == 2        \* clicks on the spin button in one behaviour
MaxRefetches == 1    \* times countries.list gives a new array

\* ------------------------------------------------------------------------
\* Optional values
\* ------------------------------------------------------------------------
None == <<>>
Some(v) == <<v>>
IsSome(o) == o # <<>>
Get(o) == o[1]

\* ------------------------------------------------------------------------
\* String primitives (String.prototype)
\* ------------------------------------------------------------------------
Ch(s, i) == IF i >= 1 /\ i <= Len(s) THEN SubSeq(s, i, i) ELSE ""

StartsWithAt(s, p, i) ==
  /\ i >= 1
  /\ i + Len(p) - 1 <= Len(s)
  /\ SubSeq(s, i, i + Len(p) - 1) = p

EndsWith(s, p) == Len(p) <= Len(s) /\ SubSeq(s, Len(s) - Len(p) + 1, Len(s)) = p

\* first index at which p occurs in s at or after position from, 0 if none
IndexFrom(s, p, from) ==
  LET hits == {i \in from..Len(s) : StartsWithAt(s, p, i)}
  IN IF hits = {} THEN 0 ELSE CHOOSE i \in hits : \A j \in hits : i <= j

IndexOf(s, p) == IndexFrom(s, p, 1)

LastIndexOf(s, p) ==
  LET hits == {i \in 1..Len(s) : StartsWithAt(s, p, i)}
  IN IF hits = {} THEN 0 ELSE CHOOSE i \in hits : \A j \in hits : i >= j

Includes(s, p) == \E i \in 1..(Len(s) + 1) : StartsWithAt(s, p, i)

UpperAlpha == "ABCDEFGHIJKLMNOPQRSTUVWXYZ"
LowerAlpha == "abcdefghijklmnopqrstuvwxyz"
Digits == "0123456789"
HexDigits == "0123456789abcdefABCDEF"

IsDigit(c) == Len(c) = 1 /\ IndexOf(Digits, c) > 0
IsHex(c) == Len(c) = 1 /\ IndexOf(HexDigits, c) > 0
IsAlpha(c) == Len(c) = 1 /\ (IndexOf(UpperAlpha, c) > 0 \/ IndexOf(LowerAlpha, c) > 0)

LowerChar(c) ==
  LET i == IndexOf(UpperAlpha, c) IN IF i > 0 THEN Ch(LowerAlpha, i) ELSE c

RECURSIVE ToLowerCase(_)
ToLowerCase(s) ==
  IF s = "" THEN "" ELSE LowerChar(Ch(s, 1)) \o ToLowerCase(SubSeq(s, 2, Len(s)))

\* s with every occurrence of the one-character string c replaced by r
RECURSIVE ReplaceAll(_, _, _)
ReplaceAll(s, c, r) ==
  IF s = "" THEN ""
  ELSE (IF Ch(s, 1) = c THEN r ELSE Ch(s, 1)) \o ReplaceAll(SubSeq(s, 2, Len(s)), c, r)

\* last index e >= i - 1 such that no character of s[i..e] is in stop
RunEnd(s, i, stop) ==
  LET ends == {e \in (i - 1)..Len(s) : \A k \in i..e : Ch(s, k) \notin stop}
  IN CHOOSE e \in ends : \A f \in ends : e >= f

\* last index e >= i - 1 such that s[i..e] are all digits
DigitRunEnd(s, i) ==
  LET ends == {e \in (i - 1)..Len(s) : \A k \in i..e : IsDigit(Ch(s, k))}
  IN CHOOSE e \in ends : \A f \in ends : e >= f

\* ------------------------------------------------------------------------
\* Numbers: parseFloat and String(number)
\* ------------------------------------------------------------------------
RECURSIVE Pow10(_)
Pow10(n) == IF n = 0 THEN 1 ELSE 10 * Pow10(n - 1)

DigitValue(c) == IndexOf(Digits, c) - 1

RECURSIVE DigitsToNat(_)
DigitsToNat(s) ==
  IF s = "" THEN 0
  ELSE 10 * DigitsToNat(SubSeq(s, 1, Len(s) - 1)) + DigitValue(Ch(s, Len(s)))

RECURSIVE NatToString(_)
NatToString(n) ==
  IF n < 10 THEN Ch(Digits, n + 1)
  ELSE NatToString(n \div 10) \o Ch(Digits, (n % 10) + 1)

RECURSIVE PadRight(_, _)
PadRight(s, n) == IF Len(s) >= n THEN SubSeq(s, 1, n) ELSE PadRight(s \o "0", n)

RECURSIVE PadLeft(_, _)
PadLeft(s, n) == IF Len(s) >= n THEN s ELSE PadLeft("0" \o s, n)

RECURSIVE StripTrailingZeros(_)
StripTrailingZeros(s) ==
  IF s # "" /\ Ch(s, Len(s)) = "0" THEN StripTrailingZeros(SubSeq(s, 1, Len(s) - 1)) ELSE s

\* parseFloat of a text of the shape -?\d+\.\d+
parseFloat(text) ==
  LET neg  == Ch(text, 1) = "-"
      body == IF neg THEN SubSeq(text, 2, Len(text)) ELSE text
      dot  == IndexOf(body, ".")
      ip   == DigitsToNat(SubSeq(body, 1, dot - 1))
      fp   == DigitsToNat(PadRight(SubSeq(body, dot + 1, Len(body)), FracDigits))
      abs  == ip * Pow10(FracDigits) + fp
  IN IF neg THEN 0 - abs ELSE abs

\* String(n) for a number n
NumberToString(n) ==
  LET abs  == IF n < 0 THEN 0 - n ELSE n
      ip   == abs \div Pow10(FracDigits)
      frac == StripTrailingZeros(PadLeft(NatToString(abs % Pow10(FracDigits)), FracDigits))
  IN (IF n < 0 THEN "-" ELSE "") \o NatToString(ip)
       \o (IF frac = "" THEN "" ELSE "." \o frac)

\* end index of the longest match of -?\d+\.\d+ that starts at i, 0 if none
MatchNumber(s, i) ==
  LET j  == IF Ch(s, i) = "-" THEN i + 1 ELSE i
      e1 == DigitRunEnd(s, j)
      e2 == DigitRunEnd(s, e1 + 2)
  IN IF e1 >= j /\ Ch(s, e1 + 1) = "." /\ e2 >= e1 + 2 THEN e2 ELSE 0

\* ------------------------------------------------------------------------
\* Percent-encoding: decodeURIComponent and the URLSearchParams decoder
\* ------------------------------------------------------------------------
\* the character an escape %hh stands for, for the escapes the input URLs
\* use; any other escape is shown as "?"
PercentChar(hh) ==
  LET u == ToLowerCase(hh)
  IN CASE u = "20" -> " "
       [] u = "21" -> "!"
       [] u = "25" -> "%"
       [] u = "26" -> "&"
       [] u = "2b" -> "+"
       [] u = "2f" -> "/"
       [] u = "40" -> "@"
       [] OTHER    -> "?"

\* decodeURIComponent(s): None when it throws URIError (a % that is not
\* followed by two hexadecimal digits), Some(decoded text) otherwise
RECURSIVE decodeURIComponent(_)
decodeURIComponent(s) ==
  IF s = "" THEN Some("")
  ELSE IF Ch(s, 1) = "%"
       THEN IF IsHex(Ch(s, 2)) /\ IsHex(Ch(s, 3))
            THEN LET rest == decodeURIComponent(SubSeq(s, 4, Len(s)))
                 IN IF IsSome(rest) THEN Some(PercentChar(SubSeq(s, 2, 3)) \o Get(rest))
                    ELSE None
            ELSE None
       ELSE LET rest == decodeURIComponent(SubSeq(s, 2, Len(s)))
            IN IF IsSome(rest) THEN Some(Ch(s, 1) \o Get(rest)) ELSE None

\* application/x-www-form-urlencoded decoding: + is a space, a malformed
\* escape is kept as it is, nothing throws
RECURSIVE FormDecode(_)
FormDecode(s) ==
  IF s = "" THEN ""
  ELSE IF Ch(s, 1) = "%" /\ IsHex(Ch(s, 2)) /\ IsHex(Ch(s, 3))
       THEN PercentChar(SubSeq(s, 2, 3)) \o FormDecode(SubSeq(s, 4, Len(s)))
       ELSE (IF Ch(s, 1) = "+" THEN " " ELSE Ch(s, 1)) \o FormDecode(SubSeq(s, 2, Len(s)))

\* s split at every occurrence of the one-character separator sep
RECURSIVE Split(_, _)
Split(s, sep) ==
  LET i == IndexOf(s, sep)
  IN IF i = 0 THEN <<s>>
     ELSE <<SubSeq(s, 1, i - 1)>> \o Split(SubSeq(s, i + 1, Len(s)), sep)

\* ------------------------------------------------------------------------
\* new URL(url): hostname and searchParams
\* ------------------------------------------------------------------------
\* None when the constructor throws TypeError; otherwise the hostname
\* (lower-cased, without userinfo and port) and the query string
URLParse(url) ==
  LET p == IndexOf(url, "://")
  IN IF p <= 1 \/ \E k \in 1..(p - 1) : ~IsAlpha(Ch(url, k)) THEN None
     ELSE
       LET rest      == SubSeq(url, p + 3, Len(url))
           authEnd   == RunEnd(rest, 1, {"/", "?", "#"})
           authority == SubSeq(rest, 1, authEnd)
           at        == LastIndexOf(authority, "@")
           hostport  == SubSeq(authority, at + 1, Len(authority))
           colon     == IndexOf(hostport, ":")
           host      == IF colon = 0 THEN hostport ELSE SubSeq(hostport, 1, colon - 1)
           tail      == SubSeq(rest, authEnd + 1, Len(rest))
           hashAt    == IndexOf(tail, "#")
           noHash    == IF hashAt = 0 THEN tail ELSE SubSeq(tail, 1, hashAt - 1)
           q         == IndexOf(noHash, "?")
           search    == IF q = 0 THEN "" ELSE SubSeq(noHash, q + 1, Len(noHash))
       IN IF host = "" \/ Includes(host, " ") \/ Includes(host, "%") THEN None
          ELSE Some([hostname |-> ToLowerCase(host), search |-> search])

\* URLSearchParams.get(name): the value of the first pair named name
RECURSIVE PairsGet(_, _)
PairsGet(pairs, name) ==
  IF pairs = <<>> THEN None
  ELSE LET pair == Head(pairs)
           eq   == IndexOf(pair, "=")
           k    == FormDecode(IF eq = 0 THEN pair ELSE SubSeq(pair, 1, eq - 1))
           v    == FormDecode(IF eq = 0 THEN "" ELSE SubSeq(pair, eq + 1, Len(pair)))
       IN IF pair # "" /\ k = name THEN Some(v) ELSE PairsGet(Tail(pairs), name)

searchParamsGet(search, name) == PairsGet(Split(search, "&"), name)

\* ------------------------------------------------------------------------
\* URL validation
\* ------------------------------------------------------------------------
ALLOWED_MAPS_HOSTS == <<"goo.gl", "maps.app.goo.gl", "google.com", "maps.google.com">>

\* host.replace(/^www\./, "")
StripWww(host) == IF StartsWithAt(host, "www.", 1) THEN SubSeq(host, 5, Len(host)) ELSE host

\* the allow-list test without the dot in front of the allowed host
isAllowedMapsUrlNoDot(url) ==
  LET u == URLParse(url)
  IN IF ~IsSome(u) THEN FALSE
     ELSE LET host == StripWww(Get(u).hostname)
          IN \E i \in DOMAIN ALLOWED_MAPS_HOSTS : EndsWith(host, ALLOWED_MAPS_HOSTS[i])

isAllowedMapsUrl(url) ==
  LET u == URLParse(url)
  IN IF ~IsSome(u) THEN FALSE
     ELSE LET host == StripWww(Get(u).hostname)
          IN \E i \in DOMAIN ALLOWED_MAPS_HOSTS :
               LET h == ALLOWED_MAPS_HOSTS[i]
               IN host = h \/ EndsWith(host, "." \o h)

isShortMapsUrl(url) ==
  LET u == URLParse(url)
  IN IF ~IsSome(u) THEN FALSE
     ELSE Get(u).hostname = "goo.gl" \/ Get(u).hostname = "maps.app.goo.gl"

isValidGoogleMapsUrl(url) == isAllowedMapsUrl(url)

\* ------------------------------------------------------------------------
\* Place info extraction from URL
\* ------------------------------------------------------------------------
\* the smallest member of a non-empty set of positions
MinOf(S) == CHOOSE i \in S : \A j \in S : i <= j

\* url.match(/data=([^&]+)/): the captured group, None without a match
MatchData(url) ==
  LET hits == {i \in 1..Len(url) :
                 StartsWithAt(url, "data=", i) /\ Ch(url, i + 5) \notin {"", "&"}}
  IN IF hits = {} THEN None
     ELSE LET i == MinOf(hits)
          IN Some(SubSeq(url, i + 5, RunEnd(url, i + 5, {"&"})))

\* s.match(/<open>(-?\d+\.\d+)<sep>(-?\d+\.\d+)/): the two captured
\* groups of the leftmost match, None without a match
MatchPair(s, open, sep) ==
  LET EndFirst(i) == MatchNumber(s, i + Len(open))
      hits == {i \in 1..Len(s) :
                 /\ StartsWithAt(s, open, i)
                 /\ EndFirst(i) > 0
                 /\ StartsWithAt(s, sep, EndFirst(i) + 1)
                 /\ MatchNumber(s, EndFirst(i) + 1 + Len(sep)) > 0}
  IN IF hits = {} THEN None
     ELSE LET i  == MinOf(hits)
              e1 == EndFirst(i)
              b2 == e1 + 1 + Len(sep)
          IN Some(<<SubSeq(s, i + Len(open), e1), SubSeq(s, b2, MatchNumber(s, b2))>>)

\* dataParam.match(/!3d(-?\d+\.\d+)!4d(-?\d+\.\d+)/)
MatchCoord(dataParam) == MatchPair(dataParam, "!3d", "!4d")

\* url.match(/@(-?\d+\.\d+),(-?\d+\.\d+)/)
MatchViewport(url) == MatchPair(url, "@", ",")

\* url.match(/\/place\/([^/@]+)/): the captured group, None without a match
MatchPlaceName(url) ==
  LET hits == {i \in 1..Len(url) :
                 StartsWithAt(url, "/place/", i) /\ Ch(url, i + 7) \notin {"", "/", "@"}}
  IN IF hits = {} THEN None
     ELSE LET i == MinOf(hits)
          IN Some(SubSeq(url, i + 7, RunEnd(url, i + 7, {"/", "@"})))

\* placeNameMatch ? decodeURIComponent(placeNameMatch[1].replace(/\+/g, ' '))
\*                : undefined;  threw is TRUE when decodeURIComponent throws
PlaceNameOf(url) ==
  LET m == MatchPlaceName(url)
  IN IF ~IsSome(m) THEN [threw |-> FALSE, name |-> None]
     ELSE LET d == decodeURIComponent(ReplaceAll(Get(m), "+", " "))
          IN [threw |-> ~IsSome(d), name |-> d]

PlaceInfo(placeId, coordinates, placeName) ==
  [placeId |-> placeId, coordinates |-> coordinates, placeName |-> placeName]

\* { coordinates: { lat, lng }, placeName } from a captured pair; null when
\* decoding the place name throws into the catch block
CoordinateInfo(url, pair) ==
  LET pn == PlaceNameOf(url)
  IN IF pn.threw THEN None
     ELSE Some(PlaceInfo(None,
                         Some([lat |-> parseFloat(pair[1]), lng |-> parseFloat(pair[2])]),
                         pn.name))

\* method 3 with a name-only result in place of the final return null
ExtractViewportOrName(url) ==
  LET viewportMatch == MatchViewport(url)
      pn == PlaceNameOf(url)
  IN IF IsSome(viewportMatch) THEN CoordinateInfo(url, Get(viewportMatch))
     ELSE IF IsSome(pn.name) THEN Some(PlaceInfo(None, None, pn.name))
     ELSE None

\* Method 3 (and the final return null)
ExtractViewport(url) ==
  LET viewportMatch == MatchViewport(url)
  IN IF IsSome(viewportMatch) THEN CoordinateInfo(url, Get(viewportMatch)) ELSE None

\* Method 2, falling through to method 3
ExtractData(url) ==
  LET dataMatch == MatchData(url)
  IN IF ~IsSome(dataMatch) THEN ExtractViewport(url)
     ELSE LET dataParam == decodeURIComponent(Get(dataMatch))
          IN IF ~IsSome(dataParam) THEN None
             ELSE LET coordMatch == MatchCoord(Get(dataParam))
                  IN IF IsSome(coordMatch) THEN CoordinateInfo(url, Get(coordMatch))
                     ELSE ExtractViewport(url)

\* None is null
extractPlaceInfoFromUrl(url) ==
  LET urlObj == URLParse(url)
  IN IF ~IsSome(urlObj) THEN None
     ELSE LET placeIdParam == searchParamsGet(Get(urlObj).search, "place_id")
          IN IF IsSome(placeIdParam) /\ Get(placeIdParam) # ""
             THEN Some(PlaceInfo(placeIdParam, None, None))
             ELSE ExtractData(url)

\* ------------------------------------------------------------------------
\* Place ID resolution via the search APIs
\* ------------------------------------------------------------------------
\* JavaScript truthiness of an optional string
Truthy(o) == IsSome(o) /\ Get(o) # ""

\* results.find((r) => r.name?.toLowerCase().includes(normalizedName)):
\* the index of the first such result, 0 when there is none
FindByNameCaseSensitive(results, normalizedName) ==
  LET hits == {i \in DOMAIN results :
                 /\ IsSome(results[i].name)
                 /\ Includes(Get(results[i].name), normalizedName)}
  IN IF hits = {} THEN 0 ELSE MinOf(hits)

FindByName(results, normalizedName) ==
  LET hits == {i \in DOMAIN results :
                 /\ IsSome(results[i].name)
                 /\ Includes(ToLowerCase(Get(results[i].name)), normalizedName)}
  IN IF hits = {} THEN 0 ELSE MinOf(hits)

\* the result-list test alone, without the status test
SearchFailedIgnoringStatus(resp) == ~IsSome(resp.results) \/ Len(Get(resp.results)) = 0

\* result.status !== "OK" || !result.results?.length
SearchFailed(resp) ==
  resp.status # "OK" \/ ~IsSome(resp.results) \/ Len(Get(resp.results)) = 0

\* resp is the outcome of makeRequest(nearbysearch); None is null
getPlaceIdFromCoordinates(resp, placeName) ==
  IF resp.rejected THEN None
  ELSE IF SearchFailed(resp)
       THEN None
       ELSE LET results == Get(resp.results)
                m == IF Truthy(placeName)
                     THEN FindByName(results, ToLowerCase(Get(placeName)))
                     ELSE 0
            IN IF m > 0 /\ Truthy(results[m].place_id) THEN results[m].place_id
               ELSE results[1].place_id

\* resp is the outcome of makeRequest(textsearch); None is null
getPlaceIdFromName(resp) ==
  IF resp.rejected THEN None
  ELSE IF resp.status = "OK" /\ IsSome(resp.results) /\ Len(Get(resp.results)) > 0
       THEN Get(resp.results)[1].place_id
       ELSE None

\* ------------------------------------------------------------------------
\* Place details fetching
\* ------------------------------------------------------------------------
MsgInvalidUrl == "Invalid Google Maps URL. Please paste a link from Google Maps."
MsgNoPlaceInfo == "Could not extract place information from URL. Make sure the link points to a specific place."
MsgNoPlaceId == "Could not resolve Place ID. The URL may not point to a specific place."
MsgNoDetails == "Could not fetch place details from Google Places API."
MsgNoCoordinates == "Place details did not include coordinates."

\* a ?? b on optional values
Coalesce(a, b) == IF IsSome(a) THEN a ELSE b

\* location?.lat != null ? String(location.lat) : undefined
CoordinateString(location, field) ==
  IF IsSome(location) /\ IsSome(Get(location)[field])
  THEN Some(NumberToString(Get(Get(location)[field])))
  ELSE None

\* the result test alone, without the status test
DetailsFailedIgnoringStatus(resp) == ~IsSome(resp.result)

\* result.status !== "OK" || !result.result
DetailsFailed(resp) == resp.status # "OK" \/ ~IsSome(resp.result)

\* the review text is cut to this many characters
DescriptionLimit == 500

\* text.slice(0, n) for n >= 0
Slice(text, n) == IF Len(text) <= n THEN text ELSE SubSeq(text, 1, n)

\* r.editorial_summary?.overview
Overview(r) ==
  IF IsSome(r.editorial_summary) THEN Get(r.editorial_summary).overview ELSE None

\* Array.isArray(r.reviews) && r.reviews.length > 0 && r.reviews[0].text
HasFirstReviewText(r) ==
  /\ IsSome(r.reviews)
  /\ Len(Get(r.reviews)) > 0
  /\ Truthy(Get(r.reviews)[1].text)

\* the two branches tried in the other order: the review before the overview
DescriptionReviewFirst(r) ==
  IF HasFirstReviewText(r)
  THEN Some(Slice(Get(Get(r.reviews)[1].text), DescriptionLimit))
  ELSE IF Truthy(Overview(r)) THEN Overview(r)
  ELSE None

\* info.description: the editorial overview, else the first review's text
\* cut to DescriptionLimit characters, else left unset
Description(r) ==
  IF Truthy(Overview(r)) THEN Overview(r)
  ELSE IF HasFirstReviewText(r)
  THEN Some(Slice(Get(Get(r.reviews)[1].text), DescriptionLimit))
  ELSE None

\* resp is the outcome of makeRequest(details); the function either throws
\* error or returns info
fetchPlaceDetails(resp) ==
  IF resp.rejected THEN [threw |-> TRUE, error |-> resp.error, info |-> None]
  ELSE IF DetailsFailed(resp)
       THEN [threw |-> TRUE, error |-> MsgNoDetails, info |-> None]
       ELSE LET r == Get(resp.result)
                location == IF IsSome(r.geometry) THEN Get(r.geometry).location ELSE None
            IN [threw |-> FALSE, error |-> "",
                info  |-> Some([placeId   |-> r.place_id,
                                name      |-> Coalesce(r.name, Some("Unknown Place")),
                                address   |-> Coalesce(r.formatted_address,
                                                       Coalesce(r.name, Some("Unknown"))),
                                latitude  |-> CoordinateString(location, "lat"),
                                longitude |-> CoordinateString(location, "lng"),
                                description |-> Description(r)])]

\* the coordinate test on the latitude alone
HasLatitude(info) == Truthy(info.latitude)

\* the negation of  !info.latitude || !info.longitude
HasCoordinates(info) == Truthy(info.latitude) /\ Truthy(info.longitude)

\* ------------------------------------------------------------------------
\* Inputs: the URLs a caller passes and the answers of the outside world
\* ------------------------------------------------------------------------
G == "https://www.google.com"

\* hosts for the validator, each followed by a path that carries a place_id
HostUrls ==
  {"https://" \o h \o "/maps?place_id=ChIJabc123" :
     h \in {"google.com", "www.google.com", "maps.google.com", "www.goo.gl",
            "x.maps.app.goo.gl", "www.www.google.com", "WWW.Google.COM:8080",
            "notgoogle.com", "evil.com", "google.com.evil.com", "wwwgoogle.com",
            "google.com@evil.com", "evil.com@maps.google.com", "com", "www."}}

\* strings new URL() rejects
BadUrls == {"", "not a url", "google.com/maps/@1.30,103.80", "https://", "https://goo gle.com/"}

\* allow-listed URLs with the extractor's patterns in every combination
PlaceUrls ==
  {G, G \o "/",
   G \o "/maps/place/Test+Cafe",
   G \o "/maps?place_id=ChIJabc123",
   G \o "/maps/place/Test+Cafe/@1.30,103.80,17z/data=!3d1.3521!4d103.8198?place_id=ChIJabc123",
   G \o "/maps/place/Test+Cafe/@1.30,103.80,17z/data=!4m2!3d1.3521!4d103.8198",
   G \o "/maps/place/Test+Cafe/data=!3d1.3521!4d103.8198",
   G \o "/maps/place/test%20cafe/@1.30,103.80,17z",
   G \o "/maps/@-1.30,103.80,17z",
   G \o "/maps/@1.30,103.80/data=%213d1.3521%214d103.8198",
   G \o "/maps/@1.30,103.80,17z/data=!3d1!4d103",
   G \o "/maps/@1.30,103.80?place_id=&q=x",
   G \o "/maps/place/50%/@1.30,103.80,17z/data=!3d1.3521!4d103.8198",
   G \o "/maps/@1.30,103.80,17z/data=!3d1.3521!4d103.8198%"}

ShortUrls == {"https://maps.app.goo.gl/AbC123", "https://goo.gl/maps/xyz"}

InputUrls == HostUrls \cup BadUrls \cup PlaceUrls \cup ShortUrls

\* what res.url can be after the redirects of a short link
ExpandedUrls ==
  {"",
   G \o "/maps/place/Test+Cafe",
   G \o "/maps?place_id=ChIJabc123",
   G \o "/maps/place/Test+Cafe/@1.30,103.80,17z/data=!4m2!3d1.3521!4d103.8198",
   G \o "/maps/@-1.30,103.80,17z"}

\* messages of the errors the runtime raises for a failed request
AbortErrorMessage == "This operation was aborted"
FetchFailedMessage == "fetch failed"

\* the places a search can return, nearest first; as in the answers of the
\* Places API every place carries a name and a place_id
Candidates ==
  {[name |-> Some("Kopi Bar"), place_id |-> Some("P1")],
   [name |-> Some("Best TEST CAFE"), place_id |-> Some("P2")],
   [name |-> Some("Test Cafe 2"), place_id |-> Some("P3")]}

\* the sequences without repetition of at most n members of S
RECURSIVE SeqsUpTo(_, _)
SeqsUpTo(S, n) ==
  IF n = 0 THEN {<<>>}
  ELSE LET shorter == SeqsUpTo(S, n - 1)
       IN shorter \cup {Append(q, c) : <<q, c>> \in
                          {qc \in shorter \X S :
                             /\ Len(qc[1]) = n - 1
                             /\ \A i \in DOMAIN qc[1] : qc[1][i] # qc[2]}}

Rejected == [rejected |-> TRUE, error |-> FetchFailedMessage, status |-> "", results |-> None]

SearchResponses ==
  {Rejected} \cup
  {[rejected |-> FALSE, error |-> "", status |-> st, results |-> rs] :
     st \in {"OK", "ZERO_RESULTS", "REQUEST_DENIED"},
     rs \in {None} \cup {Some(q) : q \in SeqsUpTo(Candidates, MaxResults)}}

Locations ==
  {[lat |-> la, lng |-> ln] : la \in {None, Some(0), Some(13521)},
                              ln \in {None, Some(1038198)}}

\* s repeated n times
RECURSIVE Repeat(_, _)
Repeat(s, n) == IF n = 0 THEN "" ELSE s \o Repeat(s, n - 1)

ShortReview == "Great kopi and kaya toast."
ExactReview == Repeat("0123456789", 50)        \* exactly 500 characters
LongReview == Repeat("0123456789", 50) \o "X"  \* 501 characters
OverviewText == "Cosy cafe serving local breakfast."

EditorialSummaries ==
  {None, Some([overview |-> None]), Some([overview |-> Some("")]),
   Some([overview |-> Some(OverviewText)])}

ReviewLists ==
  {None, Some(<<>>), Some(<<[text |-> None]>>), Some(<<[text |-> Some("")]>>),
   Some(<<[text |-> Some(ShortReview)]>>), Some(<<[text |-> Some(ExactReview)]>>),
   Some(<<[text |-> Some(LongReview)]>>),
   Some(<<[text |-> None], [text |-> Some(ShortReview)]>>),
   Some(<<[text |-> Some(ShortReview)], [text |-> Some(LongReview)]>>)}

Geometries ==
  {None, Some([location |-> None])} \cup {Some([location |-> Some(l)]) : l \in Locations}

FullGeometry == Some([location |-> Some([lat |-> Some(13521), lng |-> Some(1038198)])])

DetailsResults ==
  {[place_id |-> Some("P9"), name |-> Some("Test Cafe"),
    formatted_address |-> Some("1 Test Road"), geometry |-> g,
    editorial_summary |-> None, reviews |-> None] : g \in Geometries}
  \cup
  {[place_id |-> Some("P9"), name |-> Some("Test Cafe"),
    formatted_address |-> Some("1 Test Road"), geometry |-> FullGeometry,
    editorial_summary |-> e, reviews |-> rv] :
     e \in EditorialSummaries, rv \in ReviewLists}

DetailsRejected == [rejected |-> TRUE, error |-> FetchFailedMessage, status |-> "", result |-> None]

DetailsResponses ==
  {DetailsRejected} \cup
  {[rejected |-> FALSE, error |-> "", status |-> st, result |-> r] :
     st \in {"OK", "NOT_FOUND"},
     r \in {None} \cup {Some(d) : d \in DetailsResults}}

\* ------------------------------------------------------------------------
\* One run of resolveAndParseMapsUrl(url)
\* ------------------------------------------------------------------------
VARIABLES
  url,          \* the argument
  pc,           \* the stage the run is in
  stages,       \* the stages entered so far, in order
  fullUrl,      \* let fullUrl
  fetchState,   \* the fetch of resolveShortUrl: idle, pending, done, failed
  timer,        \* the setTimeout of resolveShortUrl: unset, armed, fired, cleared
  placeInfo,    \* const placeInfo
  search,       \* the search request of step 3: idle, nearbysearch, textsearch, done
  searchResp,   \* the answer to the search request
  placeId,      \* let placeId
  details,      \* the details request of step 4: idle, pending, done
  detailsResp,  \* the answer to the details request
  result,       \* the record the promise resolves with
  error,        \* the message of the error the promise rejects with
  requests      \* how many external requests of each kind were issued

pipelineVars == <<url, pc, stages, fullUrl, fetchState, timer, placeInfo, search,
                  searchResp, placeId, details, detailsResp, result, error, requests>>

\* ------------------------------------------------------------------------
\* The tRPC router over the database, and concurrent runs of the pipeline
\* ------------------------------------------------------------------------
VARIABLES
  dbAvailable,  \* getDb() returns a connection (DATABASE_URL set, client created)
  tables,       \* the rows of each table and the autoincrement counters
  calls,        \* the router calls in flight, one per slot
  started,      \* how many router calls were started
  runs          \* concurrent runs of resolveAndParseMapsUrl, one per request

routerVars == <<dbAvailable, tables, calls, started>>

runVars == <<runs>>

\* ------------------------------------------------------------------------
\* The OAuth callback and the globe selector of the home page
\* ------------------------------------------------------------------------
VARIABLES
  oauth,        \* the request to /api/oauth/callback being served, and the users table
  globe         \* the state of Home and of MapSelector

otherVars == <<oauth, globe>>

vars == <<pipelineVars, routerVars, runVars, otherVars>>

\* the users that sign in; ctx.user is None for a request without a session
Users == {1, 2}

Slots == 1..MaxActive

\* countriesData: the static list, id = index + 1 of the JSON file
countriesData ==
  <<[id |-> 1, alpha2 |-> "AF"], [id |-> 2, alpha2 |-> "MX"], [id |-> 3, alpha2 |-> "SG"]>>

\* the rows of the countries table: ids differ from the JSON ids
dbCountries == {[id |-> 7, alpha2 |-> "SG"], [id |-> 3, alpha2 |-> "MX"]}

TableNames == {"restaurants", "groups", "groupMembers", "visits", "visitParticipants", "reviews"}

\* empty tables; every autoincrement id starts at 1
EmptyTables ==
  [restaurants |-> {}, groups |-> {}, groupMembers |-> {}, visits |-> {},
   visitParticipants |-> {}, reviews |-> {},
   nextId |-> [t \in TableNames |-> 1]]

\* the fields of the zod input objects; a procedure reads only its own
NoInput ==
  [restaurantId |-> 0, groupId |-> 0, name |-> "", countryId |-> 0, rating |-> None,
   participantIds |-> None, visitedAt |-> 0]

\* what a call has answered: nothing yet, a value, or a TRPCError / Error
NoOutcome ==
  [status |-> "none", code |-> "", message |-> "", success |-> None, updated |-> None,
   groupId |-> None]

\* a slot without a call; at is the content of the tables when the request
\* arrived, ops the statements the call has sent since, production the value
\* of ENV.isProduction and cleared the calls of ctx.res.clearCookie
IdleCall ==
  [proc |-> "idle", user |-> None, input |-> NoInput, pc |-> "idle", existing |-> None,
   id |-> 0, at |-> EmptyTables, ops |-> <<>>, outcome |-> NoOutcome,
   production |-> FALSE, cleared |-> <<>>]

\* no router call and no concurrent run: the state of the other variables
\* while one run of the pipeline is followed
RouterQuiet ==
  /\ dbAvailable = TRUE
  /\ tables = EmptyTables
  /\ calls = [c \in Slots |-> IdleCall]
  /\ started = 0

RunsQuiet == runs = <<>>

\* no callback request: nothing answered, no step taken; users are the openIds
\* of the rows of the users table, served the number of requests so far
IdleCallback ==
  [pc |-> "idle", steps |-> <<>>, openId |-> "", production |-> FALSE, https |-> FALSE,
   status |-> 0, error |-> "", cookies |-> <<>>, redirect |-> None, users |-> {}, served |-> 0]

\* the home page before the first spin
IdleGlobe ==
  [isSpinning |-> FALSE, homeCountry |-> <<>>, spinPending |-> FALSE, timer |-> FALSE,
   selectedCountry |-> <<>>, winnerCoords |-> <<>>, calculatedCountry |-> <<>>,
   hasZoomedForCountry |-> <<>>, needsReset |-> FALSE, geographies |-> {}, spinCycle |-> 0,
   zooms |-> {}, selected |-> <<>>, spins |-> 0, refetches |-> 0]

OthersQuiet == oauth = IdleCallback /\ globe = IdleGlobe

Init ==
  /\ url \in InputUrls
  /\ pc = "Validating"
  /\ stages = <<"Validating">>
  /\ fullUrl = None
  /\ fetchState = "idle"
  /\ timer = "unset"
  /\ placeInfo = None
  /\ search = "idle"
  /\ searchResp = None
  /\ placeId = None
  /\ details = "idle"
  /\ detailsResp = None
  /\ result = None
  /\ error = None
  /\ requests = [fetch |-> 0, nearbysearch |-> 0, textsearch |-> 0, details |-> 0]
  /\ RouterQuiet
  /\ RunsQuiet
  /\ OthersQuiet

Enter(stage) ==
  /\ pc' = stage
  /\ stages' = Append(stages, stage)

\* throw new Error(message) out of resolveAndParseMapsUrl
Throw(message) ==
  /\ Enter("Failed")
  /\ error' = Some(message)

\* if (!isAllowedMapsUrl(url)) throw ...; let fullUrl = url; if (isShortMapsUrl(url)) ...
Validate ==
  /\ pc = "Validating"
  /\ IF ~isAllowedMapsUrl(url)
     THEN Throw(MsgInvalidUrl) /\ UNCHANGED fullUrl
     ELSE /\ fullUrl' = Some(url)
          /\ Enter(IF isShortMapsUrl(url) THEN "Resolving" ELSE "Extracting")
          /\ UNCHANGED error
  /\ UNCHANGED <<url, fetchState, timer, placeInfo, search, searchResp, placeId,
                 details, detailsResp, result, requests>>
  /\ UNCHANGED <<routerVars, runVars, otherVars>>

\* resolveShortUrl up to its await: arm the timer, issue the fetch
ResolveStart ==
  /\ pc = "Resolving"
  /\ fetchState = "idle"
  /\ fetchState' = "pending"
  /\ timer' = "armed"
  /\ requests' = [requests EXCEPT !.fetch = @ + 1]
  /\ UNCHANGED <<url, pc, stages, fullUrl, placeInfo, search, searchResp, placeId,
                 details, detailsResp, result, error>>
  /\ UNCHANGED <<routerVars, runVars, otherVars>>

\* the 10 s timer fires: controller.abort()
TimerFire ==
  /\ timer = "armed"
  /\ fetchState = "pending"
  /\ timer' = "fired"
  /\ UNCHANGED <<url, pc, stages, fullUrl, fetchState, placeInfo, search, searchResp,
                 placeId, details, detailsResp, result, error, requests>>
  /\ UNCHANGED <<routerVars, runVars, otherVars>>

\* the fetch resolves: return res.url; finally clearTimeout(timeout)
FetchResolve ==
  /\ fetchState = "pending"
  /\ timer = "armed"
  /\ \E u \in ExpandedUrls : fullUrl' = Some(u)
  /\ fetchState' = "done"
  /\ timer' = "cleared"
  /\ Enter("Extracting")
  /\ UNCHANGED <<url, placeInfo, search, searchResp, placeId, details, detailsResp,
                 result, error, requests>>
  /\ UNCHANGED <<routerVars, runVars, otherVars>>

\* a rejected fetch that is tried again instead of failing the run
FetchRejectRetry ==
  /\ fetchState = "pending"
  /\ fetchState' = "idle"
  /\ timer' = "cleared"
  /\ UNCHANGED <<url, pc, stages, fullUrl, placeInfo, search, searchResp, placeId,
                 details, detailsResp, result, error, requests>>
  /\ UNCHANGED <<routerVars, runVars, otherVars>>

\* the fetch rejects (aborted by the timer, or a network failure); finally
\* clearTimeout(timeout); the rejection leaves resolveAndParseMapsUrl as it is
FetchReject ==
  /\ fetchState = "pending"
  /\ fetchState' = "failed"
  /\ timer' = "cleared"
  /\ Throw(IF timer = "fired" THEN AbortErrorMessage ELSE FetchFailedMessage)
  /\ UNCHANGED <<url, fullUrl, placeInfo, search, searchResp, placeId, details,
                 detailsResp, result, requests>>
  /\ UNCHANGED <<routerVars, runVars, otherVars>>

\* Step 2: const placeInfo = extractPlaceInfoFromUrl(fullUrl)
Extract ==
  /\ pc = "Extracting"
  /\ placeInfo' = extractPlaceInfoFromUrl(Get(fullUrl))
  /\ IF ~IsSome(placeInfo')
     THEN Throw(MsgNoPlaceInfo)
     ELSE Enter("IdentifyingPlace") /\ UNCHANGED error
  /\ UNCHANGED <<url, fullUrl, fetchState, timer, search, searchResp, placeId,
                 details, detailsResp, result, requests>>
  /\ UNCHANGED <<routerVars, runVars, otherVars>>

\* Step 3 up to its await: take the place id of the URL or issue a search
IdentifyPlace ==
  /\ pc = "IdentifyingPlace"
  /\ search = "idle"
  /\ LET info == Get(placeInfo)
     IN IF Truthy(info.placeId)
        THEN /\ placeId' = info.placeId
             /\ Enter("FetchingDetails")
             /\ UNCHANGED <<search, requests, error>>
        ELSE IF IsSome(info.coordinates)
        THEN /\ search' = "nearbysearch"
             /\ requests' = [requests EXCEPT !.nearbysearch = @ + 1]
             /\ UNCHANGED <<pc, stages, placeId, error>>
        ELSE IF Truthy(info.placeName)
        THEN /\ search' = "textsearch"
             /\ requests' = [requests EXCEPT !.textsearch = @ + 1]
             /\ UNCHANGED <<pc, stages, placeId, error>>
        ELSE /\ Throw(MsgNoPlaceId)
             /\ UNCHANGED <<search, requests, placeId>>
  /\ UNCHANGED <<url, fullUrl, fetchState, timer, placeInfo, searchResp, details,
                 detailsResp, result>>
  /\ UNCHANGED <<routerVars, runVars, otherVars>>

\* the search request settles; if (!placeId) throw ...
SearchResponse ==
  /\ pc = "IdentifyingPlace"
  /\ search \in {"nearbysearch", "textsearch"}
  /\ \E resp \in SearchResponses :
       /\ searchResp' = Some(resp)
       /\ placeId' = IF search = "nearbysearch"
                     THEN getPlaceIdFromCoordinates(resp, Get(placeInfo).placeName)
                     ELSE getPlaceIdFromName(resp)
  /\ search' = "done"
  /\ IF ~Truthy(placeId')
     THEN Throw(MsgNoPlaceId)
     ELSE Enter("FetchingDetails") /\ UNCHANGED error
  /\ UNCHANGED <<url, fullUrl, fetchState, timer, placeInfo, details, detailsResp,
                 result, requests>>
  /\ UNCHANGED <<routerVars, runVars, otherVars>>

\* Step 4 up to the await of fetchPlaceDetails: issue the details request
FetchDetailsStart ==
  /\ pc = "FetchingDetails"
  /\ details = "idle"
  /\ details' = "pending"
  /\ requests' = [requests EXCEPT !.details = @ + 1]
  /\ UNCHANGED <<url, pc, stages, fullUrl, fetchState, timer, placeInfo, search,
                 searchResp, placeId, detailsResp, result, error>>
  /\ UNCHANGED <<routerVars, runVars, otherVars>>

\* the details request settles; the coordinate check; return info
DetailsResponse ==
  /\ pc = "FetchingDetails"
  /\ details = "pending"
  /\ \E resp \in DetailsResponses :
       LET d == fetchPlaceDetails(resp)
       IN /\ detailsResp' = Some(resp)
          /\ IF d.threw
             THEN Throw(d.error) /\ UNCHANGED result
             ELSE IF ~HasCoordinates(Get(d.info))
             THEN Throw(MsgNoCoordinates) /\ UNCHANGED result
             ELSE /\ result' = d.info
                  /\ Enter("Done")
                  /\ UNCHANGED error
  /\ details' = "done"
  /\ UNCHANGED <<url, fullUrl, fetchState, timer, placeInfo, search, searchResp,
                 placeId, requests>>
  /\ UNCHANGED <<routerVars, runVars, otherVars>>

Next ==
  \/ Validate
  \/ ResolveStart
  \/ TimerFire
  \/ FetchResolve
  \/ FetchReject
  \/ Extract
  \/ IdentifyPlace
  \/ SearchResponse
  \/ FetchDetailsStart
  \/ DetailsResponse

Spec == Init /\ [][Next]_vars

\* ------------------------------------------------------------------------
\* resolveAndParseMapsUrl as a function of its argument and of the answers
\* of the three external requests it may issue
\* ------------------------------------------------------------------------
Rejects(message) == [result |-> None, error |-> Some(message)]

Resolves(info) == [result |-> info, error |-> None]

\* fetchAnswer: [rejected, url, error] of resolveShortUrl; searchAnswer and
\* detailsAnswer: the outcomes of makeRequest; an answer is read only when the
\* request was issued
resolveAndParseMapsUrl(u, fetchAnswer, searchAnswer, detailsAnswer) ==
  IF ~isAllowedMapsUrl(u) THEN Rejects(MsgInvalidUrl)
  ELSE IF isShortMapsUrl(u) /\ fetchAnswer.rejected THEN Rejects(fetchAnswer.error)
  ELSE LET full == IF isShortMapsUrl(u) THEN fetchAnswer.url ELSE u
           info == extractPlaceInfoFromUrl(full)
       IN IF ~IsSome(info) THEN Rejects(MsgNoPlaceInfo)
          ELSE LET id == IF Truthy(Get(info).placeId) THEN Get(info).placeId
                         ELSE IF IsSome(Get(info).coordinates)
                         THEN getPlaceIdFromCoordinates(searchAnswer, Get(info).placeName)
                         ELSE IF Truthy(Get(info).placeName)
                         THEN getPlaceIdFromName(searchAnswer)
                         ELSE None
               IN IF ~Truthy(id) THEN Rejects(MsgNoPlaceId)
                  ELSE LET d == fetchPlaceDetails(detailsAnswer)
                       IN IF d.threw THEN Rejects(d.error)
                          ELSE IF ~HasCoordinates(Get(d.info)) THEN Rejects(MsgNoCoordinates)
                          ELSE Resolves(d.info)

\* ------------------------------------------------------------------------
\* Concurrent requests to parseMapsUrl: each run has its own locals
\* ------------------------------------------------------------------------
RunIds == 1..MaxRuns

NameAndCoordinatesUrl ==
  G \o "/maps/place/Test+Cafe/@1.30,103.80,17z/data=!4m2!3d1.3521!4d103.8198"

ConcUrls == {"https://maps.app.goo.gl/AbC123", NameAndCoordinatesUrl, "https://evil.com/maps"}

ConcExpandedUrls == {NameAndCoordinatesUrl, G \o "/maps/place/Test+Cafe"}

ConcSearchResponses ==
  {Rejected,
   [rejected |-> FALSE, error |-> "", status |-> "ZERO_RESULTS", results |-> Some(<<>>)],
   [rejected |-> FALSE, error |-> "", status |-> "OK",
    results |-> Some(<<[name |-> Some("Kopi Bar"), place_id |-> Some("P1")],
                       [name |-> Some("Best TEST CAFE"), place_id |-> Some("P2")]>>)]}

ConcDetailsResponses ==
  {DetailsRejected} \cup
  {[rejected |-> FALSE, error |-> "", status |-> "OK",
    result |-> Some([place_id |-> Some("P9"), name |-> Some("Test Cafe"),
                     formatted_address |-> Some("1 Test Road"), geometry |-> g,
                     editorial_summary |-> None, reviews |-> None])] :
     g \in {None, FullGeometry}}

\* the locals of one run at its start
NewRun(u) ==
  [url |-> u, pc |-> "Validating", fullUrl |-> None, fetchState |-> "idle",
   timer |-> "unset", fetchAnswer |-> None, placeInfo |-> None, search |-> "idle",
   searchResp |-> None, placeId |-> None, details |-> "idle", detailsResp |-> None,
   result |-> None, error |-> None,
   requests |-> [fetch |-> 0, nearbysearch |-> 0, textsearch |-> 0, details |-> 0]]

\* throw new Error(message) out of the run
RunThrow(r, message) == [r EXCEPT !.pc = "Failed", !.error = Some(message)]

\* run i takes the step that leads its locals from runs[i] to r
RunStep(i, r) ==
  /\ runs' = [runs EXCEPT ![i] = r]
  /\ UNCHANGED <<pipelineVars, routerVars, otherVars>>

RunValidate(i) ==
  /\ runs[i].pc = "Validating"
  /\ \E allowed \in {isAllowedMapsUrl(runs[i].url)} :
       IF ~allowed
       THEN RunStep(i, RunThrow(runs[i], MsgInvalidUrl))
       ELSE \E short \in {isShortMapsUrl(runs[i].url)} :
              RunStep(i, [runs[i] EXCEPT !.fullUrl = Some(runs[i].url),
                                         !.pc = IF short THEN "Resolving" ELSE "Extracting"])

RunResolveStart(i) ==
  /\ runs[i].pc = "Resolving"
  /\ runs[i].fetchState = "idle"
  /\ RunStep(i, [runs[i] EXCEPT !.fetchState = "pending", !.timer = "armed",
                                !.requests.fetch = @ + 1])

RunTimerFire(i) ==
  /\ runs[i].timer = "armed"
  /\ runs[i].fetchState = "pending"
  /\ RunStep(i, [runs[i] EXCEPT !.timer = "fired"])

RunFetchResolve(i) ==
  /\ runs[i].fetchState = "pending"
  /\ runs[i].timer = "armed"
  /\ \E u \in ConcExpandedUrls :
       RunStep(i, [runs[i] EXCEPT !.fullUrl = Some(u), !.fetchState = "done",
                                  !.timer = "cleared", !.pc = "Extracting",
                                  !.fetchAnswer = Some([rejected |-> FALSE, url |-> u,
                                                        error |-> ""])])

RunFetchReject(i) ==
  /\ runs[i].fetchState = "pending"
  /\ LET message == IF runs[i].timer = "fired" THEN AbortErrorMessage
                    ELSE FetchFailedMessage
     IN RunStep(i, RunThrow([runs[i] EXCEPT !.fetchState = "failed", !.timer = "cleared",
                                            !.fetchAnswer = Some([rejected |-> TRUE,
                                                                  url |-> "",
                                                                  error |-> message])],
                            message))

\* the extraction reads a fullUrl that the runs share
RunExtractShared(i) ==
  /\ runs[i].pc = "Extracting"
  /\ \E j \in RunIds :
       /\ IsSome(runs[j].fullUrl)
       /\ \E info \in {extractPlaceInfoFromUrl(Get(runs[j].fullUrl))} :
            RunStep(i, IF ~IsSome(info)
                       THEN RunThrow([runs[i] EXCEPT !.placeInfo = info], MsgNoPlaceInfo)
                       ELSE [runs[i] EXCEPT !.placeInfo = info, !.pc = "IdentifyingPlace"])

RunExtract(i) ==
  /\ runs[i].pc = "Extracting"
  /\ \E info \in {extractPlaceInfoFromUrl(Get(runs[i].fullUrl))} :
       RunStep(i, IF ~IsSome(info)
                  THEN RunThrow([runs[i] EXCEPT !.placeInfo = info], MsgNoPlaceInfo)
                  ELSE [runs[i] EXCEPT !.placeInfo = info, !.pc = "IdentifyingPlace"])

RunIdentifyPlace(i) ==
  /\ runs[i].pc = "IdentifyingPlace"
  /\ runs[i].search = "idle"
  /\ LET r == runs[i]
         info == Get(r.placeInfo)
     IN RunStep(i, IF Truthy(info.placeId)
                   THEN [r EXCEPT !.placeId = info.placeId, !.pc = "FetchingDetails"]
                   ELSE IF IsSome(info.coordinates)
                   THEN [r EXCEPT !.search = "nearbysearch", !.requests.nearbysearch = @ + 1]
                   ELSE IF Truthy(info.placeName)
                   THEN [r EXCEPT !.search = "textsearch", !.requests.textsearch = @ + 1]
                   ELSE RunThrow(r, MsgNoPlaceId))

RunSearchResponse(i) ==
  /\ runs[i].pc = "IdentifyingPlace"
  /\ runs[i].search \in {"nearbysearch", "textsearch"}
  /\ \E resp \in ConcSearchResponses :
       \E id \in {IF runs[i].search = "nearbysearch"
                  THEN getPlaceIdFromCoordinates(resp, Get(runs[i].placeInfo).placeName)
                  ELSE getPlaceIdFromName(resp)} :
         \E answered \in {[runs[i] EXCEPT !.searchResp = Some(resp), !.placeId = id,
                                          !.search = "done"]} :
           RunStep(i, IF ~Truthy(id) THEN RunThrow(answered, MsgNoPlaceId)
                      ELSE [answered EXCEPT !.pc = "FetchingDetails"])

RunFetchDetailsStart(i) ==
  /\ runs[i].pc = "FetchingDetails"
  /\ runs[i].details = "idle"
  /\ RunStep(i, [runs[i] EXCEPT !.details = "pending", !.requests.details = @ + 1])

RunDetailsResponse(i) ==
  /\ runs[i].pc = "FetchingDetails"
  /\ runs[i].details = "pending"
  /\ \E resp \in ConcDetailsResponses :
       \E d \in {fetchPlaceDetails(resp)} :
         \E answered \in {[runs[i] EXCEPT !.detailsResp = Some(resp), !.details = "done"]} :
           RunStep(i, IF d.threw THEN RunThrow(answered, d.error)
                      ELSE IF ~HasCoordinates(Get(d.info))
                      THEN RunThrow(answered, MsgNoCoordinates)
                      ELSE [answered EXCEPT !.result = d.info, !.pc = "Done"])

\* no run of the single-run specification is in progress
PipelineQuiet ==
  /\ url = "" /\ pc = "Idle" /\ stages = <<>> /\ fullUrl = None /\ fetchState = "idle"
  /\ timer = "unset" /\ placeInfo = None /\ search = "idle" /\ searchResp = None
  /\ placeId = None /\ details = "idle" /\ detailsResp = None /\ result = None
  /\ error = None
  /\ requests = [fetch |-> 0, nearbysearch |-> 0, textsearch |-> 0, details |-> 0]

ConcInit ==
  /\ runs \in [RunIds -> {NewRun(u) : u \in ConcUrls}]
  /\ PipelineQuiet
  /\ RouterQuiet
  /\ OthersQuiet

ConcNext ==
  \E i \in RunIds :
    \/ RunValidate(i)
    \/ RunResolveStart(i)
    \/ RunTimerFire(i)
    \/ RunFetchResolve(i)
    \/ RunFetchReject(i)
    \/ RunExtract(i)
    \/ RunIdentifyPlace(i)
    \/ RunSearchResponse(i)
    \/ RunFetchDetailsStart(i)
    \/ RunDetailsResponse(i)

ConcSpec == ConcInit /\ [][ConcNext]_vars

\* ------------------------------------------------------------------------
\* appRouter: one call is a request to a procedure by ctx.user with an input
\* ------------------------------------------------------------------------
\* the procedures of the restaurants, visits, reviews and groups routers that
\* take the caller into account
RestaurantProcedures == {"restaurants.create", "restaurants.importFromGoogleMaps"}

VisitProcedures ==
  {"visits.myVisits", "visits.checkVisit", "visits.markVisited", "visits.createOrUpdate",
   "visits.delete", "visits.unmarkVisited"}

ReviewProcedures == {"reviews.getMyReview", "reviews.create", "reviews.update"}

GroupProcedures == {"groups.myGroups", "groups.create", "groups.join"}

AuthProcedures == {"auth.logout"}

Procedures ==
  AuthProcedures \cup RestaurantProcedures \cup VisitProcedures \cup ReviewProcedures
    \cup GroupProcedures

\* restaurants.create declared with publicProcedure
ProtectedExceptCreate ==
  {"restaurants.importFromGoogleMaps",
   "visits.myVisits", "visits.checkVisit", "visits.markVisited", "visits.createOrUpdate",
   "visits.delete", "visits.unmarkVisited",
   "reviews.getMyReview", "reviews.create", "reviews.update",
   "groups.myGroups", "groups.create", "groups.join"}

\* the procedures declared with protectedProcedure
ProtectedProcedures ==
  {"restaurants.create", "restaurants.importFromGoogleMaps",
   "visits.myVisits", "visits.checkVisit", "visits.markVisited", "visits.createOrUpdate",
   "visits.delete", "visits.unmarkVisited",
   "reviews.getMyReview", "reviews.create", "reviews.update",
   "groups.myGroups", "groups.create", "groups.join"}

\* the input objects tried for each procedure
RestaurantName == "Kopi Bar"

Ratings == {0, 1, 3, 5, 6}

ParticipantLists == {None, Some(<<>>), Some(<<2>>), Some(<<1, 2>>)}

Inputs(proc) ==
  CASE proc = "restaurants.create" ->
         {[NoInput EXCEPT !.name = RestaurantName, !.countryId = 7]}
    [] proc = "restaurants.importFromGoogleMaps" ->
         {[NoInput EXCEPT !.name = RestaurantName, !.countryId = k] : k \in {1, 2, 3, 9}}
    [] proc \in {"visits.checkVisit", "visits.markVisited", "visits.delete",
                 "visits.unmarkVisited", "reviews.getMyReview"} ->
         {[NoInput EXCEPT !.restaurantId = 1]}
    [] proc = "visits.createOrUpdate" ->
         {[NoInput EXCEPT !.restaurantId = 1, !.visitedAt = t, !.participantIds = p] :
            t \in {10, 20}, p \in ParticipantLists}
    [] proc = "reviews.create" ->
         {[NoInput EXCEPT !.restaurantId = 1, !.rating = Some(r)] : r \in Ratings}
    [] proc = "reviews.update" ->
         {[NoInput EXCEPT !.restaurantId = 1, !.rating = r] :
            r \in {None} \cup {Some(k) : k \in Ratings}}
    [] proc = "groups.join" -> {[NoInput EXCEPT !.groupId = g] : g \in {1, 2}}
    [] OTHER -> {NoInput}

\* .min(1) left out of the schema
RatingAtMostFive(rating) == IsSome(rating) => Get(rating) <= 5

\* z.number().min(1).max(5), and .optional() of it
RatingInRange(rating) == IsSome(rating) => (Get(rating) >= 1 /\ Get(rating) <= 5)

\* the zod schema of the procedure accepts the input
InputValid(proc, input) ==
  IF proc \in {"reviews.create", "reviews.update"} THEN RatingInRange(input.rating) ELSE TRUE

\* the first statement of each handler that awaits the database
FirstStep(proc) ==
  CASE proc = "restaurants.create" -> "createRestaurant"
    [] proc = "restaurants.importFromGoogleMaps" -> "getCountryByAlpha2"
    [] proc \in {"visits.myVisits", "reviews.getMyReview", "groups.myGroups"} -> "query"
    [] proc \in {"visits.checkVisit", "visits.createOrUpdate", "visits.delete",
                 "visits.unmarkVisited"} -> "checkUserVisit"
    [] proc = "visits.markVisited" -> "createVisit"
    [] proc = "reviews.create" -> "createReview"
    [] proc = "reviews.update" -> "updateReview"
    [] proc = "groups.create" -> "createGroup"
    [] proc = "groups.join" -> "getGroupMembers"

\* a thrown TRPCError, or an Error thrown by a helper or by the database
Failure(code, message) == [NoOutcome EXCEPT !.status = "error", !.code = code, !.message = message]

MsgDatabaseNotAvailable == "Database not available"

DatabaseNotAvailable == Failure("INTERNAL_SERVER_ERROR", MsgDatabaseNotAvailable)

\* the database refuses a row that breaks a unique index
UniqueViolation == Failure("INTERNAL_SERVER_ERROR", "UNIQUE constraint failed")

Success == [NoOutcome EXCEPT !.status = "ok"]

\* one statement sent to the database by a call: what, on which table, and
\* the ids of the rows it inserted, changed or removed
Statement(op, table, rows) == [op |-> op, table |-> table, rows |-> rows]

\* the call moves to its next statement, having sent one
Goto(call, step, statement) == [call EXCEPT !.pc = step, !.ops = Append(@, statement)]

\* the call answers
Finish(call, outcome) == [call EXCEPT !.pc = "done", !.outcome = outcome]

\* t with row inserted under the next autoincrement id of table
InsertRow(t, table, row) ==
  [t EXCEPT ![table] = @ \cup {[row EXCEPT !.id = t.nextId[table]]},
            !.nextId[table] = @ + 1]

\* protectedProcedure: the middleware in front of the handler
RequireUser(user) == IsSome(user)

\* the name of the session cookie, imported from @shared/const
COOKIE_NAME == "COOKIE_NAME"

\* the options of the session cookie of the request: sameSite none and secure
\* in production
LogoutWithSessionOptions(call) ==
  Finish([call EXCEPT !.cleared = Append(@,
            [name |-> COOKIE_NAME,
             options |-> [httpOnly |-> TRUE, path |-> "/",
                          sameSite |-> IF call.production THEN "none" ELSE "lax",
                          secure |-> call.production]])],
         [Success EXCEPT !.success = Some(TRUE)])

\* auth.logout: ctx.res.clearCookie(COOKIE_NAME, {...}); return { success: true }
Logout(call) ==
  Finish([call EXCEPT !.cleared = Append(@,
            [name |-> COOKIE_NAME,
             options |-> [httpOnly |-> TRUE, path |-> "/", sameSite |-> "Lax",
                          secure |-> call.production]])],
         [Success EXCEPT !.success = Some(TRUE)])

\* a request arrives: the middleware, then the input schema, then the handler
\* up to its first await
Request(c, procs, exclusive) ==
  /\ calls[c].pc = "idle"
  /\ started < MaxCalls
  /\ exclusive => \A d \in Slots : calls[d].pc = "idle"
  /\ \E proc \in procs, user \in {None} \cup {Some(u) : u \in Users} :
       \E input \in Inputs(proc),
          production \in (IF proc \in AuthProcedures THEN BOOLEAN ELSE {FALSE}) :
         LET call == [IdleCall EXCEPT !.proc = proc, !.user = user, !.input = input,
                                     !.at = tables, !.production = production]
         IN calls' = [calls EXCEPT ![c] =
              IF proc \in ProtectedProcedures /\ ~RequireUser(user)
              THEN Finish(call, Failure("UNAUTHORIZED", ""))
              ELSE IF ~InputValid(proc, input)
              THEN Finish(call, Failure("BAD_REQUEST", ""))
              ELSE IF proc \in AuthProcedures
              THEN Logout(call)
              ELSE [call EXCEPT !.pc = FirstStep(proc)]]
  /\ started' = started + 1
  /\ UNCHANGED <<dbAvailable, tables>>
  /\ UNCHANGED <<pipelineVars, runVars, otherVars>>

\* the answer has been delivered; the slot is free for another request
Return(c) ==
  /\ calls[c].pc = "done"
  /\ calls' = [calls EXCEPT ![c] = IdleCall]
  /\ UNCHANGED <<dbAvailable, tables, started>>
  /\ UNCHANGED <<pipelineVars, runVars, otherVars>>

\* countriesData.find(c => c.id === input.countryId)
FindJsonCountry(countryId) ==
  LET hits == {i \in DOMAIN countriesData : countriesData[i].id = countryId}
  IN IF hits = {} THEN None ELSE Some(countriesData[MinOf(hits)])

\* db.getCountryByAlpha2(alpha2): the row of the countries table, if any
getCountryByAlpha2(available, alpha2) ==
  LET hits == {r \in dbCountries : r.alpha2 = alpha2}
  IN IF ~available \/ hits = {} THEN None ELSE Some(CHOOSE r \in hits : TRUE)

\* db.getRestaurantByName(name, countryId): the rows that limit(1) can return,
\* undefined (None) without a connection or without a match
getRestaurantByName(available, t, name, countryId) ==
  LET hits == {r \in t.restaurants : r.name = name /\ r.countryId = countryId}
  IN IF ~available \/ hits = {} THEN {None} ELSE {Some(r.id) : r \in hits}

\* importFromGoogleMaps up to the answer of getCountryByAlpha2
ImportGetCountry(c) ==
  /\ calls[c].pc = "getCountryByAlpha2"
  /\ LET call == calls[c]
         jsonCountry == FindJsonCountry(call.input.countryId)
         dbCountry == getCountryByAlpha2(dbAvailable, Get(jsonCountry).alpha2)
         asked == Goto(call, "getRestaurantByName", Statement("select", "countries", {}))
     IN calls' = [calls EXCEPT ![c] =
          IF ~IsSome(jsonCountry) THEN Finish(call, Failure("BAD_REQUEST", "Country not found"))
          ELSE IF ~IsSome(dbCountry)
          THEN Finish(asked, Failure("BAD_REQUEST", "Country not found in database"))
          ELSE [asked EXCEPT !.id = Get(dbCountry).id]]
  /\ UNCHANGED <<dbAvailable, tables, started>>
  /\ UNCHANGED <<pipelineVars, runVars, otherVars>>

\* const existing = await db.getRestaurantByName(...); if (existing) throw CONFLICT
ImportCheckExisting(c) ==
  /\ calls[c].pc = "getRestaurantByName"
  /\ LET call == calls[c]
         asked == Goto(call, "createRestaurant", Statement("select", "restaurants", {}))
     IN \E existing \in getRestaurantByName(dbAvailable, tables, call.input.name, call.id) :
          calls' = [calls EXCEPT ![c] =
            IF IsSome(existing)
            THEN Finish([asked EXCEPT !.existing = existing],
                        Failure("CONFLICT", "Restaurant already exists in database"))
            ELSE asked]
  /\ UNCHANGED <<dbAvailable, tables, started>>
  /\ UNCHANGED <<pipelineVars, runVars, otherVars>>

\* the import passes input.countryId, the id of the JSON list, to the insert
CreateRestaurantWithJsonId(c) ==
  /\ calls[c].pc = "createRestaurant"
  /\ LET call == calls[c]
         row == [id |-> 0, name |-> call.input.name, countryId |-> call.input.countryId,
                 via |-> call.proc]
         sent == Goto(call, "done", Statement("insert", "restaurants", {tables.nextId.restaurants}))
     IN IF ~dbAvailable
        THEN /\ calls' = [calls EXCEPT ![c] = Finish(call, DatabaseNotAvailable)]
             /\ UNCHANGED tables
        ELSE /\ tables' = InsertRow(tables, "restaurants", row)
             /\ calls' = [calls EXCEPT ![c] = Finish(sent, Success)]
  /\ UNCHANGED <<dbAvailable, started>>
  /\ UNCHANGED <<pipelineVars, runVars, otherVars>>

\* db.createRestaurant(restaurant): the insert of both restaurant procedures;
\* the import passes the database country id, create the input's countryId
CreateRestaurant(c) ==
  /\ calls[c].pc = "createRestaurant"
  /\ LET call == calls[c]
         import == call.proc = "restaurants.importFromGoogleMaps"
         row == [id |-> 0, name |-> call.input.name,
                 countryId |-> IF import THEN call.id ELSE call.input.countryId,
                 via |-> call.proc]
         sent == Goto(call, "done", Statement("insert", "restaurants", {tables.nextId.restaurants}))
     IN IF ~dbAvailable
        THEN /\ calls' = [calls EXCEPT ![c] = Finish(call, DatabaseNotAvailable)]
             /\ UNCHANGED tables
        ELSE /\ tables' = InsertRow(tables, "restaurants", row)
             /\ calls' = [calls EXCEPT ![c] = Finish(sent, Success)]
  /\ UNCHANGED <<dbAvailable, started>>
  /\ UNCHANGED <<pipelineVars, runVars, otherVars>>

\* ctx.user.id
UserId(call) == Get(call.user)

\* a read-only procedure of one select: myVisits, getMyReview, myGroups
Query(c) ==
  /\ calls[c].pc = "query"
  /\ LET call == calls[c]
         table == CASE call.proc = "visits.myVisits" -> "visitParticipants"
                    [] call.proc = "reviews.getMyReview" -> "reviews"
                    [] OTHER -> "groupMembers"
     IN calls' = [calls EXCEPT ![c] = Finish(Goto(call, "done", Statement("select", table, {})),
                                             Success)]
  /\ UNCHANGED <<dbAvailable, tables, started>>
  /\ UNCHANGED <<pipelineVars, runVars, otherVars>>

\* the join with visitParticipants left out: any visit of the restaurant
checkRestaurantVisit(available, t, userId, restaurantId) ==
  LET hits == {v \in t.visits : v.restaurantId = restaurantId}
  IN IF ~available \/ hits = {} THEN {None} ELSE {Some(v.id) : v \in hits}

\* db.checkUserVisit(userId, restaurantId): the visits that limit(1) can
\* return, null (None) without a connection or without a match
checkUserVisit(available, t, userId, restaurantId) ==
  LET hits == {v \in t.visits :
                 /\ v.restaurantId = restaurantId
                 /\ \E p \in t.visitParticipants : p.visitId = v.id /\ p.userId = userId}
  IN IF ~available \/ hits = {} THEN {None} ELSE {Some(v.id) : v \in hits}

\* input.participantIds && input.participantIds.length > 0 ? input.participantIds
\* : [ctx.user.id]; markVisited passes [userId]
ParticipantIds(call) ==
  IF call.proc = "visits.createOrUpdate" /\ IsSome(call.input.participantIds)
     /\ Len(Get(call.input.participantIds)) > 0
  THEN Get(call.input.participantIds)
  ELSE <<UserId(call)>>

\* the answers of the visits procedures
Updated(flag) == [Success EXCEPT !.success = Some(TRUE), !.updated = Some(flag)]

Succeeded == [Success EXCEPT !.success = Some(TRUE)]

\* const existing = await db.checkUserVisit(ctx.user.id, input.restaurantId)
\* and the branch each procedure takes on it
CheckUserVisit(c) ==
  /\ calls[c].pc = "checkUserVisit"
  /\ LET call == calls[c]
     IN \E existing \in checkUserVisit(dbAvailable, tables, UserId(call),
                                        call.input.restaurantId) :
          LET asked == [Goto(call, "done", Statement("select", "visits", {}))
                          EXCEPT !.existing = existing]
          IN calls' = [calls EXCEPT ![c] =
               CASE call.proc = "visits.createOrUpdate" ->
                      [asked EXCEPT !.pc = IF IsSome(existing) THEN "updateVisit"
                                           ELSE "createVisit"]
                 [] call.proc = "visits.checkVisit" ->
                      IF IsSome(existing) THEN [asked EXCEPT !.pc = "getVisitParticipants"]
                      ELSE Finish(asked, Success)
                 [] OTHER ->
                      IF IsSome(existing) THEN [asked EXCEPT !.pc = "deleteVisit"]
                      ELSE Finish(asked, Succeeded)]
  /\ UNCHANGED <<dbAvailable, tables, started>>
  /\ UNCHANGED <<pipelineVars, runVars, otherVars>>

\* checkVisit: const participants = await db.getVisitParticipants(visit.id)
GetVisitParticipants(c) ==
  /\ calls[c].pc = "getVisitParticipants"
  /\ calls' = [calls EXCEPT ![c] =
       Finish(Goto(calls[c], "done", Statement("select", "visitParticipants", {})), Success)]
  /\ UNCHANGED <<dbAvailable, tables, started>>
  /\ UNCHANGED <<pipelineVars, runVars, otherVars>>

\* the participant rows of visit visitId for the users of the list, and the
\* tables after their insert in one statement
RECURSIVE InsertParticipants(_, _, _)
InsertParticipants(t, visitId, userIds) ==
  IF userIds = <<>> THEN t
  ELSE InsertParticipants(
         InsertRow(t, "visitParticipants",
                   [id |-> 0, visitId |-> visitId, userId |-> Head(userIds)]),
         visitId, Tail(userIds))

\* the ids the next n inserts into table get
NextIds(t, table, n) == {t.nextId[table] + k : k \in 0..(n - 1)}

\* createVisit up to the answer of its first insert
CreateVisit(c) ==
  /\ calls[c].pc = "createVisit"
  /\ LET call == calls[c]
         visitId == tables.nextId.visits
         row == [id |-> 0, restaurantId |-> call.input.restaurantId,
                 visitedAt |-> call.input.visitedAt]
         sent == [Goto(call, "createVisit.participants",
                       Statement("insert", "visits", {visitId})) EXCEPT !.id = visitId]
     IN IF ~dbAvailable
        THEN /\ calls' = [calls EXCEPT ![c] = Finish(call, DatabaseNotAvailable)]
             /\ UNCHANGED tables
        ELSE /\ tables' = InsertRow(tables, "visits", row)
             /\ calls' = [calls EXCEPT ![c] =
                  IF Len(ParticipantIds(call)) > 0 THEN sent
                  ELSE Finish(sent, IF call.proc = "visits.createOrUpdate"
                                    THEN Updated(FALSE) ELSE Success)]
  /\ UNCHANGED <<dbAvailable, started>>
  /\ UNCHANGED <<pipelineVars, runVars, otherVars>>

\* createVisit: the insert of the participant rows, and the answer
CreateVisitParticipants(c) ==
  /\ calls[c].pc = "createVisit.participants"
  /\ LET call == calls[c]
         ids == ParticipantIds(call)
     IN /\ tables' = InsertParticipants(tables, call.id, ids)
        /\ calls' = [calls EXCEPT ![c] =
             Finish(Goto(call, "done",
                         Statement("insert", "visitParticipants",
                                   NextIds(tables, "visitParticipants", Len(ids)))),
                    IF call.proc = "visits.createOrUpdate" THEN Updated(FALSE) ELSE Success)]
  /\ UNCHANGED <<dbAvailable, started>>
  /\ UNCHANGED <<pipelineVars, runVars, otherVars>>

\* updateVisit up to the answer of its update statement
UpdateVisit(c) ==
  /\ calls[c].pc = "updateVisit"
  /\ LET call == calls[c]
         visitId == Get(call.existing)
         hit == {v \in tables.visits : v.id = visitId}
     IN IF ~dbAvailable
        THEN /\ calls' = [calls EXCEPT ![c] = Finish(call, DatabaseNotAvailable)]
             /\ UNCHANGED tables
        ELSE /\ tables' = [tables EXCEPT !.visits =
                  (@ \ hit) \cup {[v EXCEPT !.visitedAt = call.input.visitedAt] : v \in hit}]
             /\ calls' = [calls EXCEPT ![c] =
                  Goto(call, "updateVisit.delete",
                       Statement("update", "visits", {v.id : v \in hit}))]
  /\ UNCHANGED <<dbAvailable, started>>
  /\ UNCHANGED <<pipelineVars, runVars, otherVars>>

\* updateVisit: delete the existing participants
UpdateVisitDeleteParticipants(c) ==
  /\ calls[c].pc = "updateVisit.delete"
  /\ LET call == calls[c]
         gone == {p \in tables.visitParticipants : p.visitId = Get(call.existing)}
         sent == Goto(call, "updateVisit.insert",
                      Statement("delete", "visitParticipants", {p.id : p \in gone}))
     IN /\ tables' = [tables EXCEPT !.visitParticipants = @ \ gone]
        /\ calls' = [calls EXCEPT ![c] =
             IF Len(ParticipantIds(call)) > 0 THEN sent ELSE Finish(sent, Updated(TRUE))]
  /\ UNCHANGED <<dbAvailable, started>>
  /\ UNCHANGED <<pipelineVars, runVars, otherVars>>

\* updateVisit: add the new participants, and the answer
UpdateVisitInsertParticipants(c) ==
  /\ calls[c].pc = "updateVisit.insert"
  /\ LET call == calls[c]
         ids == ParticipantIds(call)
     IN /\ tables' = InsertParticipants(tables, Get(call.existing), ids)
        /\ calls' = [calls EXCEPT ![c] =
             Finish(Goto(call, "done",
                         Statement("insert", "visitParticipants",
                                   NextIds(tables, "visitParticipants", Len(ids)))),
                    Updated(TRUE))]
  /\ UNCHANGED <<dbAvailable, started>>
  /\ UNCHANGED <<pipelineVars, runVars, otherVars>>

\* deleteVisit: delete participants first
DeleteVisitParticipants(c) ==
  /\ calls[c].pc = "deleteVisit"
  /\ LET call == calls[c]
         gone == {p \in tables.visitParticipants : p.visitId = Get(call.existing)}
     IN IF ~dbAvailable
        THEN /\ calls' = [calls EXCEPT ![c] = Finish(call, DatabaseNotAvailable)]
             /\ UNCHANGED tables
        ELSE /\ tables' = [tables EXCEPT !.visitParticipants = @ \ gone]
             /\ calls' = [calls EXCEPT ![c] =
                  Goto(call, "deleteVisit.visit",
                       Statement("delete", "visitParticipants", {p.id : p \in gone}))]
  /\ UNCHANGED <<dbAvailable, started>>
  /\ UNCHANGED <<pipelineVars, runVars, otherVars>>

\* deleteVisit: delete the visit; return { success: true }
DeleteVisitRow(c) ==
  /\ calls[c].pc = "deleteVisit.visit"
  /\ LET call == calls[c]
         gone == {v \in tables.visits : v.id = Get(call.existing)}
     IN /\ tables' = [tables EXCEPT !.visits = @ \ gone]
        /\ calls' = [calls EXCEPT ![c] =
             Finish(Goto(call, "done", Statement("delete", "visits", {v.id : v \in gone})),
                    Succeeded)]
  /\ UNCHANGED <<dbAvailable, started>>
  /\ UNCHANGED <<pipelineVars, runVars, otherVars>>

\* db.createReview(review): one insert; the reviews table has a unique index
\* on (userId, restaurantId)
CreateReview(c) ==
  /\ calls[c].pc = "createReview"
  /\ LET call == calls[c]
         row == [id |-> 0, userId |-> UserId(call), restaurantId |-> call.input.restaurantId,
                 rating |-> Get(call.input.rating)]
         taken == \E r \in tables.reviews :
                    r.userId = row.userId /\ r.restaurantId = row.restaurantId
         sent == Goto(call, "done", Statement("insert", "reviews",
                                              IF taken THEN {} ELSE {tables.nextId.reviews}))
     IN IF ~dbAvailable
        THEN /\ calls' = [calls EXCEPT ![c] = Finish(call, DatabaseNotAvailable)]
             /\ UNCHANGED tables
        ELSE IF taken
        THEN /\ calls' = [calls EXCEPT ![c] = Finish(sent, UniqueViolation)]
             /\ UNCHANGED tables
        ELSE /\ tables' = InsertRow(tables, "reviews", row)
             /\ calls' = [calls EXCEPT ![c] = Finish(sent, Success)]
  /\ UNCHANGED <<dbAvailable, started>>
  /\ UNCHANGED <<pipelineVars, runVars, otherVars>>

\* db.updateReview(userId, restaurantId, { rating, comment }): an undefined
\* rating leaves the column as it is
UpdateReview(c) ==
  /\ calls[c].pc = "updateReview"
  /\ LET call == calls[c]
         hit == {r \in tables.reviews :
                   r.userId = UserId(call) /\ r.restaurantId = call.input.restaurantId}
         set(r) == IF IsSome(call.input.rating)
                   THEN [r EXCEPT !.rating = Get(call.input.rating)] ELSE r
     IN IF ~dbAvailable
        THEN /\ calls' = [calls EXCEPT ![c] = Finish(call, DatabaseNotAvailable)]
             /\ UNCHANGED tables
        ELSE /\ tables' = [tables EXCEPT !.reviews = (@ \ hit) \cup {set(r) : r \in hit}]
             /\ calls' = [calls EXCEPT ![c] =
                  Finish(Goto(call, "done", Statement("update", "reviews", {r.id : r \in hit})),
                         Success)]
  /\ UNCHANGED <<dbAvailable, started>>
  /\ UNCHANGED <<pipelineVars, runVars, otherVars>>

\* db.createGroup(group): insert returning the id
CreateGroup(c) ==
  /\ calls[c].pc = "createGroup"
  /\ LET call == calls[c]
         groupId == tables.nextId.groups
     IN IF ~dbAvailable
        THEN /\ calls' = [calls EXCEPT ![c] = Finish(call, DatabaseNotAvailable)]
             /\ UNCHANGED tables
        ELSE /\ tables' = InsertRow(tables, "groups", [id |-> 0, creatorId |-> UserId(call)])
             /\ calls' = [calls EXCEPT ![c] =
                  [Goto(call, "addGroupMember", Statement("insert", "groups", {groupId}))
                     EXCEPT !.id = groupId]]
  /\ UNCHANGED <<dbAvailable, started>>
  /\ UNCHANGED <<pipelineVars, runVars, otherVars>>

\* the insert of a membership row; group_members has a unique index on
\* (group_id, user_id)
InsertMember(c, groupId, role, outcome) ==
  LET call == calls[c]
      taken == \E m \in tables.groupMembers : m.groupId = groupId /\ m.userId = UserId(call)
      sent == Goto(call, "done", Statement("insert", "groupMembers",
                                           IF taken THEN {} ELSE {tables.nextId.groupMembers}))
  IN IF ~dbAvailable
     THEN /\ calls' = [calls EXCEPT ![c] = Finish(call, DatabaseNotAvailable)]
          /\ UNCHANGED tables
     ELSE IF taken
     THEN /\ calls' = [calls EXCEPT ![c] = Finish(sent, UniqueViolation)]
          /\ UNCHANGED tables
     ELSE /\ tables' = InsertRow(tables, "groupMembers",
                                 [id |-> 0, groupId |-> groupId, userId |-> UserId(call),
                                  role |-> role])
          /\ calls' = [calls EXCEPT ![c] = Finish(sent, outcome)]

\* the creator joins with role member instead of owner
AddGroupMemberAsMember(c) ==
  /\ calls[c].pc = "addGroupMember"
  /\ InsertMember(c, calls[c].id, "member", [Success EXCEPT !.groupId = Some(calls[c].id)])
  /\ UNCHANGED <<dbAvailable, started>>
  /\ UNCHANGED <<pipelineVars, runVars, otherVars>>

\* await db.addGroupMember({ groupId, userId: ctx.user.id, role: 'owner' });
\* return { groupId }
AddGroupMember(c) ==
  /\ calls[c].pc = "addGroupMember"
  /\ InsertMember(c, calls[c].id, "owner", [Success EXCEPT !.groupId = Some(calls[c].id)])
  /\ UNCHANGED <<dbAvailable, started>>
  /\ UNCHANGED <<pipelineVars, runVars, otherVars>>

\* db.getGroupMembers(groupId): the membership rows joined with their users;
\* no rows without a connection
getGroupMembers(available, t, groupId) ==
  IF ~available THEN {} ELSE {m \in t.groupMembers : m.groupId = groupId}

\* the membership test left out: the call goes on to joinGroup
GetGroupMembersUnchecked(c) ==
  /\ calls[c].pc = "getGroupMembers"
  /\ calls' = [calls EXCEPT ![c] =
       Goto(calls[c], "joinGroup", Statement("select", "groupMembers", {}))]
  /\ UNCHANGED <<dbAvailable, tables, started>>
  /\ UNCHANGED <<pipelineVars, runVars, otherVars>>

\* const members = await db.getGroupMembers(input.groupId);
\* members.some(m => m.user?.id === ctx.user.id) -> CONFLICT
GetGroupMembers(c) ==
  /\ calls[c].pc = "getGroupMembers"
  /\ LET call == calls[c]
         members == getGroupMembers(dbAvailable, tables, call.input.groupId)
         existing == \E m \in members : m.userId = UserId(call)
         asked == Goto(call, "joinGroup", Statement("select", "groupMembers", {}))
     IN calls' = [calls EXCEPT ![c] =
          IF existing
          THEN Finish(asked, Failure("CONFLICT", "Already a member of this group"))
          ELSE asked]
  /\ UNCHANGED <<dbAvailable, tables, started>>
  /\ UNCHANGED <<pipelineVars, runVars, otherVars>>

\* return await db.joinGroup(input.groupId, ctx.user.id)
JoinGroup(c) ==
  /\ calls[c].pc = "joinGroup"
  /\ InsertMember(c, calls[c].input.groupId, "member", Success)
  /\ UNCHANGED <<dbAvailable, started>>
  /\ UNCHANGED <<pipelineVars, runVars, otherVars>>

\* the router's database connection is there or not for a whole behaviour
RouterInit ==
  /\ dbAvailable \in BOOLEAN
  /\ tables = EmptyTables
  /\ calls = [c \in Slots |-> IdleCall]
  /\ started = 0
  /\ PipelineQuiet
  /\ RunsQuiet
  /\ OthersQuiet

\* concurrent requests to the restaurants procedures
ImportNext ==
  \E c \in Slots :
    \/ Request(c, RestaurantProcedures, FALSE)
    \/ ImportGetCountry(c)
    \/ ImportCheckExisting(c)
    \/ CreateRestaurant(c)
    \/ Return(c)

ImportSpec == RouterInit /\ [][ImportNext]_vars

\* the procedures that call createVisit, updateVisit and deleteVisit
\* (visits.unmarkVisited has the handler of visits.delete)
VisitMutations == {"visits.markVisited", "visits.createOrUpdate", "visits.delete"}

\* concurrent requests to the visits mutations: the statements of createVisit,
\* updateVisit and deleteVisit interleave
VisitNext ==
  \E c \in Slots :
    \/ Request(c, VisitMutations, FALSE)
    \/ CheckUserVisit(c)
    \/ CreateVisit(c)
    \/ CreateVisitParticipants(c)
    \/ UpdateVisit(c)
    \/ UpdateVisitDeleteParticipants(c)
    \/ UpdateVisitInsertParticipants(c)
    \/ DeleteVisitParticipants(c)
    \/ DeleteVisitRow(c)
    \/ Return(c)

VisitSpec == RouterInit /\ [][VisitNext]_vars

\* the groups mutations
GroupMutations == {"groups.create", "groups.join"}

\* concurrent requests to groups.create and groups.join
GroupNext ==
  \E c \in Slots :
    \/ Request(c, GroupMutations, FALSE)
    \/ CreateGroup(c)
    \/ AddGroupMember(c)
    \/ GetGroupMembers(c)
    \/ JoinGroup(c)
    \/ Return(c)

GroupSpec == RouterInit /\ [][GroupNext]_vars

\* requests to the procedures, served one after the other
RouterNext ==
  \E c \in Slots :
    \/ Request(c, Procedures, TRUE)
    \/ ImportGetCountry(c)
    \/ ImportCheckExisting(c)
    \/ CreateRestaurant(c)
    \/ Query(c)
    \/ CheckUserVisit(c)
    \/ GetVisitParticipants(c)
    \/ CreateVisit(c)
    \/ CreateVisitParticipants(c)
    \/ UpdateVisit(c)
    \/ UpdateVisitDeleteParticipants(c)
    \/ UpdateVisitInsertParticipants(c)
    \/ DeleteVisitParticipants(c)
    \/ DeleteVisitRow(c)
    \/ CreateReview(c)
    \/ UpdateReview(c)
    \/ CreateGroup(c)
    \/ AddGroupMember(c)
    \/ GetGroupMembers(c)
    \/ JoinGroup(c)
    \/ Return(c)

RouterSpec == RouterInit /\ [][RouterNext]_vars

\* ------------------------------------------------------------------------
\* GET /api/oauth/callback
\* ------------------------------------------------------------------------
\* the ids Google reports for the users that sign in
GoogleIds == {"1", "2"}

\* getSessionCookieOptions(req)
getSessionCookieOptions(production, https) ==
  [httpOnly |-> TRUE, path |-> "/", sameSite |-> IF production THEN "none" ELSE "lax",
   secure |-> IF production THEN TRUE ELSE https]

\* the handler has taken the step named; ok when it went on after it
Took(o, name, ok) == [o EXCEPT !.steps = Append(@, [step |-> name, ok |-> ok])]

\* res.status(status).json({ error: message }); return
Answer(o, status, message) == [o EXCEPT !.pc = "done", !.status = status, !.error = message]

\* catch (error) { res.status(500).json({ error: "OAuth callback failed" }) }
Caught(o) == Answer(o, 500, "OAuth callback failed")

\* the handler up to its first await: the code, the client credentials, and
\* the fetch of the token endpoint
CallbackRequest ==
  /\ oauth.pc = "idle"
  /\ oauth.served < MaxCallbacks
  /\ \E code \in BOOLEAN, clientId \in BOOLEAN, clientSecret \in BOOLEAN,
        production \in BOOLEAN, https \in BOOLEAN :
       LET o == [oauth EXCEPT !.served = @ + 1, !.production = production, !.https = https]
       IN oauth' =
            IF ~code THEN Answer(Took(o, "code", FALSE), 400, "code is required")
            ELSE IF ~(clientId /\ clientSecret)
            THEN Answer(Took(Took(o, "code", TRUE), "credentials", FALSE), 500,
                        "OAuth client credentials are not configured")
            ELSE [Took(Took(o, "code", TRUE), "credentials", TRUE) EXCEPT !.pc = "token"]
  /\ UNCHANGED <<pipelineVars, routerVars, runVars, globe>>

\* the token endpoint answers: rejected fetch, !ok, no access_token, or a token
TokenResponse ==
  /\ oauth.pc = "token"
  /\ \E answer \in {"rejected", "notOk", "noToken", "token"} :
       oauth' =
         CASE answer = "rejected" -> Caught(Took(oauth, "token", FALSE))
           [] answer = "notOk" ->
                Answer(Took(oauth, "token", FALSE), 500,
                       "Failed to exchange authorization code for tokens")
           [] answer = "noToken" ->
                Answer(Took(Took(oauth, "token", TRUE), "accessToken", FALSE), 500,
                       "No access token returned from Google")
           [] OTHER ->
                [Took(Took(oauth, "token", TRUE), "accessToken", TRUE) EXCEPT !.pc = "userinfo"]
  /\ UNCHANGED <<pipelineVars, routerVars, runVars, globe>>

\* the userinfo endpoint answers: rejected fetch, !ok, no id, or a user
UserInfoResponse ==
  /\ oauth.pc = "userinfo"
  /\ \E answer \in {"rejected", "notOk", "noId"} \cup GoogleIds :
       oauth' =
         CASE answer = "rejected" -> Caught(Took(oauth, "userinfo", FALSE))
           [] answer = "notOk" ->
                Answer(Took(oauth, "userinfo", FALSE), 500,
                       "Failed to fetch user info from Google")
           [] answer = "noId" ->
                Answer(Took(Took(oauth, "userinfo", TRUE), "id", FALSE), 400,
                       "id missing from Google user info")
           [] OTHER ->
                [Took(Took(oauth, "userinfo", TRUE), "id", TRUE)
                   EXCEPT !.pc = "upsertUser", !.openId = "google_" \o answer]
  /\ UNCHANGED <<pipelineVars, routerVars, runVars, globe>>

\* db.upsertUser(user): what the call can do to the users table, and whether
\* it throws; without a connection it warns and returns
upsertUser(available, users, openId) ==
  IF ~available THEN {[users |-> users, threw |-> FALSE]}
  ELSE {[users |-> users \cup {openId}, threw |-> FALSE], [users |-> users, threw |-> TRUE]}

\* await db.upsertUser({ openId, ... })
UpsertUser ==
  /\ oauth.pc = "upsertUser"
  /\ \E r \in upsertUser(dbAvailable, oauth.users, oauth.openId) :
       oauth' = IF r.threw THEN Caught(Took(oauth, "upsertUser", FALSE))
                ELSE [Took(oauth, "upsertUser", TRUE) EXCEPT !.users = r.users,
                                                             !.pc = "createSessionToken"]
  /\ UNCHANGED <<pipelineVars, routerVars, runVars, globe>>

\* sdk.createSessionToken, res.cookie(COOKIE_NAME, sessionToken, ...) and
\* res.redirect(302, "/")
CreateSessionToken ==
  /\ oauth.pc = "createSessionToken"
  /\ \E created \in BOOLEAN :
       oauth' =
         IF ~created THEN Caught(Took(oauth, "createSessionToken", FALSE))
         ELSE [Took(oauth, "createSessionToken", TRUE) EXCEPT
                 !.pc = "done", !.status = 302, !.redirect = Some("/"),
                 !.cookies = Append(@, [name |-> COOKIE_NAME, openId |-> oauth.openId,
                                        options |-> getSessionCookieOptions(oauth.production,
                                                                            oauth.https)])]
  /\ UNCHANGED <<pipelineVars, routerVars, runVars, globe>>

\* the response has been sent; the users table stays
CallbackReturn ==
  /\ oauth.pc = "done"
  /\ oauth' = [IdleCallback EXCEPT !.users = oauth.users, !.served = oauth.served]
  /\ UNCHANGED <<pipelineVars, routerVars, runVars, globe>>

OAuthInit ==
  /\ dbAvailable \in BOOLEAN
  /\ tables = EmptyTables
  /\ calls = [c \in Slots |-> IdleCall]
  /\ started = 0
  /\ PipelineQuiet
  /\ RunsQuiet
  /\ OthersQuiet

OAuthNext ==
  \/ CallbackRequest
  \/ TokenResponse
  \/ UserInfoResponse
  \/ UpsertUser
  \/ CreateSessionToken
  \/ CallbackReturn

OAuthSpec == OAuthInit /\ [][OAuthNext]_vars

\* ------------------------------------------------------------------------
\* Home and MapSelector: the globe selector
\* ------------------------------------------------------------------------
\* the result of countries.list: a country known to the map by its alpha-3
\* code, one known by its alpha-2 code, one the map does not have
GlobeCountries ==
  {[code |-> "MX", alpha2 |-> "MX", alpha3 |-> "MEX"],
   [code |-> "FR", alpha2 |-> "FR", alpha3 |-> "FRA"],
   [code |-> "XK", alpha2 |-> "XK", alpha3 |-> "XKX"]}

\* the ids of the geographies of /world.json
WorldGeographies == {"MEX", "FR", "MYS"}

\* effect 2: the geography of the country by alpha-3, then by alpha-2, then
\* Malaysia
matchingGeo(geographies, country) ==
  IF country.alpha3 \in geographies THEN Some(country.alpha3)
  ELSE IF country.alpha2 \in geographies THEN Some(country.alpha2)
  ELSE IF "MYS" \in geographies THEN Some("MYS")
  ELSE IF "MY" \in geographies THEN Some("MY")
  ELSE None

\* effect 1 with isSpinning: a new spin cycle, the state of the last spin
\* cleared, the timer of 3 s started
Effect1(g) ==
  [g EXCEPT !.spinCycle = @ + 1, !.needsReset = FALSE, !.selectedCountry = None,
            !.winnerCoords = None, !.calculatedCountry = None, !.hasZoomedForCountry = None,
            !.timer = TRUE]

\* effect 2, run when selectedCountry has changed
Effect2(g) ==
  IF IsSome(g.selectedCountry) /\ g.geographies # {}
  THEN IF g.calculatedCountry # Some(Get(g.selectedCountry).code)
       THEN LET geo == matchingGeo(g.geographies, Get(g.selectedCountry))
            IN IF IsSome(geo)
               THEN [g EXCEPT !.winnerCoords = geo,
                              !.calculatedCountry = Some(Get(g.selectedCountry).code)]
               ELSE g
       ELSE g
  ELSE IF ~IsSome(g.selectedCountry) THEN [g EXCEPT !.calculatedCountry = None]
  ELSE g

\* effect 3, run when winnerCoords or selectedCountry has changed: the zoom
\* of 2 s starts, once for a country
Effect3(g) ==
  IF ~IsSome(g.winnerCoords) \/ ~IsSome(g.selectedCountry) THEN g
  ELSE IF g.hasZoomedForCountry = Some(Get(g.selectedCountry).code) THEN g
  ELSE IF g.calculatedCountry = Some(Get(g.selectedCountry).code)
  THEN [g EXCEPT !.hasZoomedForCountry = Some(Get(g.selectedCountry).code),
                 !.zooms = @ \cup {[country |-> Get(g.selectedCountry), cycle |-> g.spinCycle]}]
  ELSE g

\* Home.handleSpin: the button is rendered only when not spinning
HandleSpin ==
  /\ ~globe.isSpinning
  /\ ~globe.spinPending
  /\ globe.spins < MaxSpins
  /\ globe' = [globe EXCEPT !.homeCountry = None, !.spinPending = TRUE, !.spins = @ + 1]
  /\ UNCHANGED <<pipelineVars, routerVars, runVars, oauth>>

\* setTimeout(() => setIsSpinning(true), 0) fires, and the effects run
SpinStart ==
  /\ globe.spinPending
  /\ globe' = Effect3(Effect2(Effect1([globe EXCEPT !.spinPending = FALSE,
                                                     !.isSpinning = TRUE])))
  /\ UNCHANGED <<pipelineVars, routerVars, runVars, oauth>>

\* the timer of effect 1 fires: countries[randomIndex] is the winner, and
\* effects 2 and 3 run
PickWinner ==
  /\ globe.timer
  /\ \E winner \in GlobeCountries :
       globe' = Effect3(Effect2([globe EXCEPT !.timer = FALSE,
                                              !.selectedCountry = Some(winner)]))
  /\ UNCHANGED <<pipelineVars, routerVars, runVars, oauth>>

\* <Geographies> has loaded /world.json and renders: geographiesRef is set,
\* no state of MapSelector changes and no effect runs
GeographiesLoad ==
  /\ globe.geographies = {}
  /\ globe' = [globe EXCEPT !.geographies = WorldGeographies]
  /\ UNCHANGED <<pipelineVars, routerVars, runVars, oauth>>

\* the last frame of animateZoom: onCountrySelected(selectedCountry) of the
\* render that started the zoom, Home.handleCountrySelected, and the cleanup
\* of effect 1
ZoomEnd ==
  /\ \E zoom \in globe.zooms :
       globe' = [globe EXCEPT !.zooms = @ \ {zoom}, !.needsReset = TRUE,
                              !.homeCountry = Some(zoom.country.code),
                              !.isSpinning = FALSE, !.timer = FALSE,
                              !.selected = Append(@, [country |-> zoom.country.code,
                                                      cycle |-> zoom.cycle,
                                                      during |-> globe.spinCycle])]
  /\ UNCHANGED <<pipelineVars, routerVars, runVars, oauth>>

\* countries.list is fetched again and gives a new array: effect 1 is cleaned
\* up and runs again
CountriesChange ==
  /\ globe.refetches < MaxRefetches
  /\ globe' = IF globe.isSpinning
              THEN Effect3(Effect2(Effect1([globe EXCEPT !.refetches = @ + 1])))
              ELSE [globe EXCEPT !.refetches = @ + 1]
  /\ UNCHANGED <<pipelineVars, routerVars, runVars, oauth>>

GlobeInit ==
  /\ dbAvailable = TRUE
  /\ tables = EmptyTables
  /\ calls = [c \in Slots |-> IdleCall]
  /\ started = 0
  /\ PipelineQuiet
  /\ RunsQuiet
  /\ OthersQuiet

GlobeNext ==
  \/ HandleSpin
  \/ SpinStart
  \/ PickWinner
  \/ GeographiesLoad
  \/ ZoomEnd
  \/ CountriesChange

\* the timers, the animation frames and the load of the map are not held
\* back for ever; the user and the refetch are not obliged
GlobeSpec ==
  /\ GlobeInit
  /\ [][GlobeNext]_vars
  /\ WF_vars(SpinStart)
  /\ WF_vars(PickWinner)
  /\ WF_vars(GeographiesLoad)
  /\ WF_vars(ZoomEnd)

\* ------------------------------------------------------------------------
\* Properties
\* ------------------------------------------------------------------------
\* stage named has been entered and left
Left(stage) == pc # stage /\ \E i \in DOMAIN stages : stages[i] = stage

\* a details response whose geometry.location is missing or lacks lat or lng
LacksLocation(resp) ==
  /\ ~resp.rejected
  /\ IsSome(resp.result)
  /\ LET g == Get(resp.result).geometry
     IN \/ ~IsSome(g)
        \/ ~IsSome(Get(g).location)
        \/ ~IsSome(Get(Get(g).location).lat)
        \/ ~IsSome(Get(Get(g).location).lng)

\* C1: a record is returned only with both latitude and longitude present
\* and non-null; a details response whose geometry.location is missing, or
\* lacks lat or lng, ends the run in failure with no record returned.
C1_CoordinatesRequired ==
  /\ IsSome(result) =>
       /\ pc = "Done"
       /\ IsSome(Get(result).latitude) /\ Get(Get(result).latitude) # ""
       /\ IsSome(Get(result).longitude) /\ Get(Get(result).longitude) # ""
  /\ pc = "Done" => IsSome(result)
  /\ (IsSome(detailsResp) /\ LacksLocation(Get(detailsResp))) =>
       (pc = "Failed" /\ result = None)

\* a details response with status OK and a latitude but no longitude arrived
C1_Witness ==
  /\ IsSome(detailsResp)
  /\ Get(detailsResp).status = "OK"
  /\ IsSome(Get(detailsResp).result)
  /\ Get(Get(detailsResp).result).geometry
       = Some([location |-> Some([lat |-> Some(13521), lng |-> None])])
  /\ pc = "Failed"
  /\ error = Some(MsgNoCoordinates)

\* the labels of a host name
Labels(host) == Split(host, ".")

IsSuffixSeq(a, b) == Len(a) <= Len(b) /\ SubSeq(b, Len(b) - Len(a) + 1, Len(b)) = a

\* the host, one leading "www." label removed, is an allowed host or a
\* dot-separated subdomain of one
HostOnAllowList(host) ==
  LET labels   == Labels(host)
      stripped == IF Len(labels) >= 2 /\ labels[1] = "www" THEN Tail(labels) ELSE labels
  IN \E h \in {"goo.gl", "maps.app.goo.gl", "google.com", "maps.google.com"} :
       IsSuffixSeq(Labels(h), stripped)

\* C2: isValidGoogleMapsUrl(s) is true exactly when s parses as a URL whose
\* hostname, one leading "www." removed, equals an allowed host or is a
\* dot-separated subdomain of one; every other input (lookalike hosts,
\* unparseable strings) gives false, and the pipeline rejects exactly those.
C2_ValidatorAllowList ==
  LET expected == IsSome(URLParse(url)) /\ HostOnAllowList(Get(URLParse(url)).hostname)
  IN /\ isValidGoogleMapsUrl(url) = expected
     /\ Left("Validating") =>
          ((stages[2] = "Failed" /\ error = Some(MsgInvalidUrl)) <=> ~expected)

\* the lookalike host notgoogle.com has been rejected
C2_Witness ==
  /\ url = "https://notgoogle.com/maps?place_id=ChIJabc123"
  /\ stages = <<"Validating", "Failed">>
  /\ error = Some(MsgInvalidUrl)

\* the value of the first place_id parameter of the query string
PlaceIdParam(u) ==
  LET parsed == URLParse(u)
  IN IF IsSome(parsed) THEN searchParamsGet(Get(parsed).search, "place_id") ELSE None

HasPlaceIdParam(u) == IsSome(PlaceIdParam(u)) /\ Get(PlaceIdParam(u)) # ""

\* the !3d lat !4d lng pair written in the data blob of the URL
DataBlobPair(u) == IF IsSome(MatchData(u)) THEN MatchCoord(Get(MatchData(u))) ELSE None

\* C3: the extractor returns the first successful match in the order
\* place_id parameter, data-blob coordinates, viewport coordinates: with a
\* non-empty place_id parameter the result is exactly {placeId}; with both a
\* data-blob pair and a viewport pair (and no place_id) the coordinates
\* returned are the data-blob pair.
C3_ExtractorPriority ==
  Left("Extracting") =>
    LET u == Get(fullUrl)
    IN /\ HasPlaceIdParam(u) => placeInfo = Some(PlaceInfo(PlaceIdParam(u), None, None))
       /\ (~HasPlaceIdParam(u) /\ IsSome(DataBlobPair(u)) /\ IsSome(MatchViewport(u))) =>
            /\ IsSome(placeInfo)
            /\ Get(placeInfo).coordinates
                 = Some([lat |-> parseFloat(Get(DataBlobPair(u))[1]),
                         lng |-> parseFloat(Get(DataBlobPair(u))[2])])

\* none of the three patterns of the extractor matches in u
NoPattern(u) ==
  /\ ~HasPlaceIdParam(u)
  /\ ~IsSome(MatchViewport(u))
  /\ LET d == MatchData(u)
     IN \/ ~IsSome(d)
        \/ ~IsSome(decodeURIComponent(Get(d)))
        \/ ~IsSome(MatchCoord(Get(decodeURIComponent(Get(d)))))

\* C4: for a URL in which none of the three patterns matches the extractor
\* returns null and the run fails with the could-not-extract error without
\* a nearby-search, text-search or place-details request.
C4_NoPatternIsUnresolvable ==
  (Left("Extracting") /\ NoPattern(Get(fullUrl))) =>
    /\ placeInfo = None
    /\ pc = "Failed"
    /\ error = Some(MsgNoPlaceInfo)
    /\ requests.nearbysearch = 0
    /\ requests.textsearch = 0
    /\ requests.details = 0

\* an allow-listed URL with a place name and no pattern has been extracted
C4_Witness ==
  /\ url = G \o "/maps/place/Test+Cafe"
  /\ stages = <<"Validating", "Extracting", "Failed">>
  /\ placeInfo = None
  /\ error = Some(MsgNoPlaceInfo)

\* the nearby search has been answered
NearbyAnswered == IsSome(searchResp) /\ requests.nearbysearch > 0 /\ ~Get(searchResp).rejected

\* C5: a nearby search that reports a status other than OK or no results
\* yields no identifier; the run fails with the could-not-resolve-place-id
\* error, the details request is never issued and the search ran once.
C5_EmptySearchIsNotFound ==
  (/\ NearbyAnswered
   /\ \/ Get(searchResp).status # "OK"
      \/ ~IsSome(Get(searchResp).results)
      \/ Len(Get(Get(searchResp).results)) = 0) =>
    /\ placeId = None
    /\ pc = "Failed"
    /\ error = Some(MsgNoPlaceId)
    /\ requests.nearbysearch = 1
    /\ requests.details = 0
    /\ detailsResp = None

\* a nearby search answered ZERO_RESULTS with an empty list
C5_Witness ==
  /\ NearbyAnswered
  /\ Get(searchResp).status = "ZERO_RESULTS"
  /\ Get(searchResp).results = Some(<<>>)
  /\ pc = "Failed"

\* hint occurs in name when the case of letters is ignored
ContainsIgnoringCase(name, hint) ==
  \E k \in 0..(Len(name) - Len(hint)) :
    \A j \in 1..Len(hint) : LowerChar(Ch(name, k + j)) = LowerChar(Ch(hint, j))

\* C6: for an OK, non-empty nearby-search list the identifier is the
\* place_id of the first result whose name contains the name hint, case
\* ignored, also when that is not the first result; without a hint, or
\* when no name contains it, it is the place_id of the first result.
C6_NameHintPreferred ==
  (/\ NearbyAnswered
   /\ Get(searchResp).status = "OK"
   /\ IsSome(Get(searchResp).results)
   /\ Len(Get(Get(searchResp).results)) > 0) =>
    LET results  == Get(Get(searchResp).results)
        hint     == Get(placeInfo).placeName
        matching == IF IsSome(hint)
                    THEN {i \in DOMAIN results :
                            ContainsIgnoringCase(Get(results[i].name), Get(hint))}
                    ELSE {}
    IN placeId = IF matching = {} THEN results[1].place_id
                 ELSE results[MinOf(matching)].place_id

\* the hint "Test Cafe" picked the second result "Best TEST CAFE"
C6_Witness ==
  /\ NearbyAnswered
  /\ Get(placeInfo).placeName = Some("Test Cafe")
  /\ Get(searchResp).status = "OK"
  /\ Get(searchResp).results
       = Some(<<[name |-> Some("Kopi Bar"), place_id |-> Some("P1")],
                [name |-> Some("Best TEST CAFE"), place_id |-> Some("P2")]>>)
  /\ placeId = Some("P2")

Rank(stage) ==
  CASE stage = "Validating"       -> 1
    [] stage = "Resolving"        -> 2
    [] stage = "Extracting"       -> 3
    [] stage = "IdentifyingPlace" -> 4
    [] stage = "FetchingDetails"  -> 5
    [] stage = "Done"             -> 6
    [] stage = "Failed"           -> 7

\* C7: a run visits the stages only in the order Validating, Resolving (for
\* short links only), Extracting, IdentifyingPlace, FetchingDetails, Done:
\* no stage is entered twice or after a later one, every external request
\* is issued at most once, and after Done or Failed nothing happens.
C7_StraightLine ==
  [][/\ pc \in {"Done", "Failed"} => UNCHANGED vars
     /\ pc' # pc =>
          /\ pc' = "Failed" \/ Rank(pc') > Rank(pc)
          /\ pc' = "Resolving" => isShortMapsUrl(url)
     /\ \A k \in DOMAIN requests : requests'[k] <= 1
     /\ \A i, j \in DOMAIN stages' : i # j => stages'[i] # stages'[j]]_vars

\* a short link went through every stage
C7_Witness ==
  stages = <<"Validating", "Resolving", "Extracting", "IdentifyingPlace",
             "FetchingDetails", "Done">>

\* the stage that failed, in a failed run
FailedStage == stages[Len(stages) - 1]

KindOfStage(stage) ==
  CASE stage = "Validating"       -> "InvalidUrl"
    [] stage = "Resolving"        -> "NetworkTimeout"
    [] stage = "Extracting"       -> "UnresolvableLink"
    [] stage = "IdentifyingPlace" -> "PlaceNotFound"
    [] stage = "FetchingDetails"  -> "DetailsUnavailable"

\* the messages of the errors the pipeline itself constructs
PipelineMessages ==
  {MsgInvalidUrl, MsgNoPlaceInfo, MsgNoPlaceId, MsgNoDetails, MsgNoCoordinates}

KindOfMessage(message) ==
  CASE message = MsgInvalidUrl    -> "InvalidUrl"
    [] message = MsgNoPlaceInfo   -> "UnresolvableLink"
    [] message = MsgNoPlaceId     -> "PlaceNotFound"
    [] message = MsgNoDetails     -> "DetailsUnavailable"
    [] message = MsgNoCoordinates -> "DetailsUnavailable"

\* C8: each of the five failure kinds reaches the caller as a message of
\* its own: the message of a failed run is one the pipeline wrote for the
\* kind of that failure, never one shared with another kind and never the
\* raw error of a failed request.
C8_DistinctMessages ==
  pc = "Failed" =>
    /\ Get(error) \in PipelineMessages
    /\ KindOfMessage(Get(error)) = KindOfStage(FailedStage)

\* C9: when the short-link fetch is aborted by the timer or fails, the run
\* fails, the fetch is not retried, the timer is cleared on every exit
\* path, no later stage runs, and the caller gets a user-facing message of
\* the pipeline.
C9_ShortLinkFailureSurfaced ==
  /\ fetchState \in {"done", "failed"} => timer = "cleared"
  /\ fetchState = "failed" =>
       /\ pc = "Failed"
       /\ requests = [fetch |-> 1, nearbysearch |-> 0, textsearch |-> 0, details |-> 0]
       /\ \A i \in DOMAIN stages : Rank(stages[i]) <= 2 \/ stages[i] = "Failed"
       /\ placeInfo = None
       /\ Get(error) \in PipelineMessages

\* C10: a place-details response with a status other than OK, or without a
\* result, fails the run with the could-not-fetch-details error and no
\* record is returned.
C10_DetailsUnavailable ==
  (/\ IsSome(detailsResp)
   /\ ~Get(detailsResp).rejected
   /\ Get(detailsResp).status # "OK" \/ ~IsSome(Get(detailsResp).result)) =>
    /\ pc = "Failed"
    /\ error = Some(MsgNoDetails)
    /\ result = None

\* a NOT_FOUND response that nevertheless carries a complete result
C10_Witness ==
  /\ IsSome(detailsResp)
  /\ Get(detailsResp).status = "NOT_FOUND"
  /\ IsSome(Get(detailsResp).result)
  /\ ~LacksLocation(Get(detailsResp))
  /\ pc = "Failed"
  /\ error = Some(MsgNoDetails)

\* the record fetchPlaceDetails built from the answered details request
BuiltInfo == Get(fetchPlaceDetails(Get(detailsResp)).info)

DetailsBuilt == IsSome(detailsResp) /\ ~fetchPlaceDetails(Get(detailsResp)).threw

\* C11: in the record the Detail Fetcher builds, the description is the
\* editorial overview when one is present; otherwise the text of the first
\* review cut to at most 500 characters; otherwise it is absent. A review text
\* is never used when an editorial overview exists. The record a finished run
\* returns carries that same description.
C11_DescriptionSource ==
  DetailsBuilt =>
    LET r == Get(Get(detailsResp).result)
        e == r.editorial_summary
        hasOverview == IsSome(e) /\ IsSome(Get(e).overview) /\ Get(Get(e).overview) # ""
        rv == r.reviews
        hasReview == /\ IsSome(rv) /\ Len(Get(rv)) >= 1
                     /\ IsSome(Get(rv)[1].text) /\ Get(Get(rv)[1].text) # ""
        text == Get(Get(rv)[1].text)
        d == BuiltInfo.description
    IN /\ hasOverview => d = Get(e).overview
       /\ (~hasOverview /\ hasReview) =>
            /\ IsSome(d)
            /\ Len(Get(d)) <= 500
            /\ Len(Get(d)) = (IF Len(text) <= 500 THEN Len(text) ELSE 500)
            /\ \A i \in 1..Len(Get(d)) : Ch(Get(d), i) = Ch(text, i)
       /\ (~hasOverview /\ ~hasReview) => d = None
       /\ pc = "Done" => Get(result).description = d

\* a run returned the overview of a response that carried both an overview
\* and a first review with text
C11_Witness ==
  /\ pc = "Done"
  /\ DetailsBuilt
  /\ LET r == Get(Get(detailsResp).result)
     IN /\ Truthy(Overview(r))
        /\ HasFirstReviewText(r)
        /\ Get(result).description = Some(OverviewText)

\* u has a /place/<name>/ segment and none of the three patterns: a URL that
\* gives a name hint and nothing else
NameOnlyUrl(u) == NoPattern(u) /\ ~PlaceNameOf(u).threw /\ Truthy(PlaceNameOf(u).name)

\* the first result's place_id of an OK, non-empty answer, stated on the answer
FirstResultId(resp) ==
  IF ~resp.rejected /\ resp.status = "OK" /\ resp.results # None /\ resp.results # Some(<<>>)
  THEN Head(Get(resp.results)).place_id
  ELSE None

\* C12 as stated: a URL that carries only a name hint is extracted to a
\* name-only place info and leads the run into the text-search step.
C12_NameOnlyUrlIsTextSearched ==
  (Left("Extracting") /\ NameOnlyUrl(Get(fullUrl))) =>
    /\ placeInfo = Some(PlaceInfo(None, None, PlaceNameOf(Get(fullUrl)).name))
    /\ Left("IdentifyingPlace") => requests.textsearch = 1

\* C12 (amended): the text search for a name hint takes the place_id of the
\* first result of an OK answer, but no URL leads a run into it: the extractor
\* never returns a name hint without coordinates, so no text-search request
\* is issued and a URL with a name and nothing else fails at extraction.
C12_TextSearchUnreachable ==
  /\ requests.textsearch = 0
  /\ search # "textsearch"
  /\ IsSome(placeInfo) =>
       (IsSome(Get(placeInfo).placeName) => IsSome(Get(placeInfo).coordinates))
  /\ (Left("Extracting") /\ NameOnlyUrl(Get(fullUrl))) =>
       (placeInfo = None /\ pc = "Failed" /\ error = Some(MsgNoPlaceInfo))
  /\ \A resp \in SearchResponses :
       ~resp.rejected => getPlaceIdFromName(resp) = FirstResultId(resp)

\* a short link expanded to a URL with a name and nothing else, and the run
\* failed at extraction without a search
C12_Witness ==
  /\ url \in ShortUrls
  /\ IsSome(fullUrl) /\ NameOnlyUrl(Get(fullUrl))
  /\ Left("Extracting")
  /\ pc = "Failed"
  /\ requests.textsearch = 0 /\ requests.nearbysearch = 0

\* the restaurant rows an import created
ImportedRows == {r \in tables.restaurants : r.via = "restaurants.importFromGoogleMaps"}

\* C13: after any sequence or interleaving of import calls the restaurants
\* table holds at most one row created by import for each (name, database
\* country id), and an import that finds an existing row with that pair
\* answers CONFLICT and creates nothing.
C13_ImportRejectsDuplicates ==
  /\ \A r1, r2 \in ImportedRows :
       (r1.name = r2.name /\ r1.countryId = r2.countryId) => r1 = r2
  /\ \A c \in Slots :
       (calls[c].pc = "done" /\ IsSome(calls[c].existing)) =>
         /\ calls[c].outcome.code = "CONFLICT"
         /\ \A i \in DOMAIN calls[c].ops : calls[c].ops[i].op # "insert"

\* the answer a run received, or a placeholder when it never asked
AnswerOr(answer, placeholder) == IF IsSome(answer) THEN Get(answer) ELSE placeholder

\* what run r would do alone on its URL with the answers it received
Alone(r) ==
  resolveAndParseMapsUrl(r.url,
                         AnswerOr(r.fetchAnswer, [rejected |-> FALSE, url |-> "", error |-> ""]),
                         AnswerOr(r.searchResp, Rejected),
                         AnswerOr(r.detailsResp, DetailsRejected))

\* C14: two concurrent runs of the pipeline do not interact: under every
\* interleaving of their steps a finished run has the outcome (record or
\* error) that resolveAndParseMapsUrl yields alone on the same URL and the
\* same external answers, and every run issues its own external requests:
\* one fetch if it passed the short-link step, one search if it searched, one
\* details request if it resolved, whatever the other run did.
C14_RunsDoNotInteract ==
  \A i \in RunIds :
    LET r == runs[i]
    IN /\ r.pc \in {"Done", "Failed"} =>
            [result |-> r.result, error |-> r.error] = Alone(r)
       /\ r.requests.fetch = (IF r.fetchState = "idle" THEN 0 ELSE 1)
       /\ r.requests.nearbysearch + r.requests.textsearch = (IF r.search = "idle" THEN 0 ELSE 1)
       /\ r.requests.details = (IF r.details = "idle" THEN 0 ELSE 1)
       /\ r.pc = "Done" =>
            /\ r.requests.details = 1
            /\ isShortMapsUrl(r.url) => r.requests.fetch = 1

\* two runs on the same short link finished, one with a record and one with
\* an error, each after a fetch of its own
C14_Witness ==
  /\ runs # <<>>
  /\ runs[1].url = runs[2].url
  /\ isShortMapsUrl(runs[1].url)
  /\ runs[1].pc = "Done" /\ runs[2].pc = "Failed"
  /\ runs[1].requests.fetch = 1 /\ runs[2].requests.fetch = 1
  /\ runs[1].requests.details = 1
  /\ runs[1].fullUrl # runs[2].fullUrl

\* the procedures C15 names
NamedProtected ==
  {"restaurants.create", "restaurants.importFromGoogleMaps", "visits.myVisits",
   "visits.checkVisit", "visits.markVisited", "visits.createOrUpdate", "visits.delete",
   "visits.unmarkVisited", "reviews.getMyReview", "reviews.create", "reviews.update",
   "groups.myGroups", "groups.create", "groups.join"}

\* C15: a call to any of the fourteen protected procedures with no
\* authenticated user is rejected with UNAUTHORIZED and sends no statement to
\* the database: it never enters its handler.
C15_ProtectedRequireUser ==
  \A c \in Slots :
    (calls[c].proc \in NamedProtected /\ calls[c].user = None) =>
      /\ calls[c].pc = "done"
      /\ calls[c].outcome.status = "error"
      /\ calls[c].outcome.code = "UNAUTHORIZED"
      /\ calls[c].ops = <<>>

\* an unauthenticated groups.join was rejected while the group it names exists
C15_Witness ==
  \E c \in Slots :
    /\ calls[c].proc = "groups.join"
    /\ calls[c].user = None
    /\ calls[c].outcome.code = "UNAUTHORIZED"
    /\ \E g \in tables.groups : g.id = calls[c].input.groupId

\* the ids of the rows the call inserted into table
InsertedIds(call, table) ==
  UNION {call.ops[i].rows : i \in {j \in DOMAIN call.ops :
                                     call.ops[j].op = "insert" /\ call.ops[j].table = table}}

\* the insert statements the call sent on table
Inserts(call, table) ==
  {i \in DOMAIN call.ops : call.ops[i].op = "insert" /\ call.ops[i].table = table}

\* the membership rows of the caller in the group the call names
Memberships(call) ==
  {m \in tables.groupMembers : m.groupId = call.input.groupId /\ m.userId = Get(call.user)}

C17_CreateGroupAddsOwner ==
  \A c \in Slots :
    LET call == calls[c]
    IN (call.proc = "groups.create" /\ call.pc = "done" /\ call.outcome.status = "ok") =>
         /\ Len(call.ops) = 2
         /\ call.ops[1].op = "insert" /\ call.ops[1].table = "groups"
         /\ call.ops[2].op = "insert" /\ call.ops[2].table = "groupMembers"
         /\ \E g \in tables.groups, m \in tables.groupMembers :
              /\ call.ops[1].rows = {g.id}
              /\ g.creatorId = Get(call.user)
              /\ call.ops[2].rows = {m.id}
              /\ m.groupId = g.id
              /\ m.userId = Get(call.user)
              /\ m.role = "owner"
              /\ call.outcome.groupId = Some(g.id)

\* user 2 created the second group and is its owner
C17_Witness ==
  \E c \in Slots :
    /\ calls[c].proc = "groups.create" /\ calls[c].pc = "done"
    /\ calls[c].user = Some(2)
    /\ calls[c].outcome.groupId = Some(2)
    /\ \E m \in tables.groupMembers : m.groupId = 2 /\ m.userId = 2 /\ m.role = "owner"

\* the ids of the visits of the restaurant in which the user participates
VisitsOf(t, userId, restaurantId) ==
  {v.id : v \in {w \in t.visits :
                   /\ w.restaurantId = restaurantId
                   /\ \E p \in t.visitParticipants : p.visitId = w.id /\ p.userId = userId}}

\* the users of the participant rows of a visit, and the number of the rows
ParticipantsOf(t, visitId) == {p.userId : p \in {q \in t.visitParticipants : q.visitId = visitId}}

ParticipantRows(t, visitId) == Cardinality({q \in t.visitParticipants : q.visitId = visitId})

\* the participant rows of the visits other than visitId, with their ids
OtherParticipants(t, visitId) == {q \in t.visitParticipants : q.visitId # visitId}

\* the list the claim says is written
GivenOrCaller(call) ==
  IF IsSome(call.input.participantIds) /\ Get(call.input.participantIds) # <<>>
  THEN Get(call.input.participantIds)
  ELSE <<Get(call.user)>>

\* the participant rows of visitId are one row for each user of the list
WrittenAs(t, visitId, list) ==
  /\ ParticipantsOf(t, visitId) = {list[i] : i \in DOMAIN list}
  /\ ParticipantRows(t, visitId) = Len(list)

\* C18: with the database connected, an answered visits.createOrUpdate has
\* created a new visit and returned updated: false exactly when the caller
\* participated in no visit for that restaurant when it was called; otherwise
\* it has updated one such visit, created none and returned updated: true. In
\* both cases the participant rows of that visit are the given participantIds,
\* or [caller] when participantIds is absent or empty, and no other visit and
\* no participant row of another visit has changed.
C18_CreateOrUpdate ==
  \A c \in Slots :
    LET call == calls[c]
        before == VisitsOf(call.at, Get(call.user), call.input.restaurantId)
        created == InsertedIds(call, "visits")
        list == GivenOrCaller(call)
    IN (dbAvailable /\ call.proc = "visits.createOrUpdate" /\ IsSome(call.user)
        /\ call.pc = "done") =>
         /\ call.outcome.status = "ok"
         /\ call.outcome.success = Some(TRUE)
         /\ IF before = {}
            THEN /\ call.outcome.updated = Some(FALSE)
                 /\ \E v \in tables.visits :
                      /\ created = {v.id}
                      /\ v.id \notin {w.id : w \in call.at.visits}
                      /\ v.restaurantId = call.input.restaurantId
                      /\ v.visitedAt = call.input.visitedAt
                      /\ tables.visits = call.at.visits \cup {v}
                      /\ WrittenAs(tables, v.id, list)
                      /\ OtherParticipants(tables, v.id) = call.at.visitParticipants
            ELSE /\ call.outcome.updated = Some(TRUE)
                 /\ created = {}
                 /\ \E id \in before :
                      /\ \E old \in call.at.visits :
                           /\ old.id = id
                           /\ tables.visits = (call.at.visits \ {old})
                                \cup {[old EXCEPT !.visitedAt = call.input.visitedAt]}
                      /\ WrittenAs(tables, id, list)
                      /\ OtherParticipants(tables, id) = OtherParticipants(call.at, id)

\* user 1 has updated a visit made with user 2 and handed it over to user 2:
\* the update was answered with updated: true and user 1 no longer
\* participates
C18_Witness ==
  \E c \in Slots :
    /\ calls[c].proc = "visits.createOrUpdate" /\ calls[c].pc = "done"
    /\ calls[c].user = Some(1)
    /\ calls[c].input.participantIds = Some(<<2>>)
    /\ calls[c].outcome.updated = Some(TRUE)
    /\ ParticipantsOf(calls[c].at, 1) = {1, 2}
    /\ ParticipantsOf(tables, 1) = {2}

\* the delete statements the call sent
Deletes(call) == {i \in DOMAIN call.ops : call.ops[i].op = "delete"}

\* C19: an answered visits.delete or visits.unmarkVisited has returned
\* success: true; when the caller participated in a visit for the restaurant
\* one such visit and all its participant rows are gone and nothing else has
\* changed; when the caller participated in none, no delete was sent and the
\* tables are as they were; and a repeat of the call is a no-op: after the
\* answer the caller participates in no visit for the restaurant, which is the
\* case in which the call changes nothing.
C19_DeleteIsIdempotent ==
  \A c \in Slots :
    LET call == calls[c]
        before == VisitsOf(call.at, Get(call.user), call.input.restaurantId)
    IN (call.proc \in {"visits.delete", "visits.unmarkVisited"} /\ IsSome(call.user)
        /\ call.pc = "done") =>
         /\ call.outcome.status = "ok"
         /\ call.outcome.success = Some(TRUE)
         /\ IF before = {}
            THEN Deletes(call) = {} /\ tables = call.at
            ELSE \E id \in before :
                   /\ tables.visits = {v \in call.at.visits : v.id # id}
                   /\ tables.visitParticipants = OtherParticipants(call.at, id)
         /\ VisitsOf(tables, Get(call.user), call.input.restaurantId) = {}

\* the call passes a rating below 1 or above 5
RatingOutOfRange(call) ==
  /\ IsSome(call.input.rating)
  /\ (Get(call.input.rating) < 1 \/ Get(call.input.rating) > 5)

\* C20: every review row has a rating between 1 and 5, whatever create and
\* update calls were made, and an answered reviews.create or reviews.update
\* with a rating below 1 or above 5 was rejected without a statement sent to
\* the database.
C20_RatingsInRange ==
  /\ \A r \in tables.reviews : r.rating >= 1 /\ r.rating <= 5
  /\ \A c \in Slots :
       LET call == calls[c]
       IN (call.proc \in {"reviews.create", "reviews.update"} /\ IsSome(call.user)
           /\ RatingOutOfRange(call)) =>
            /\ call.pc = "done"
            /\ call.outcome.status = "error"
            /\ call.outcome.code = "BAD_REQUEST"
            /\ call.ops = <<>>
            /\ tables = call.at

\* user 1 reviewed restaurant 1 with rating 5; the update to rating 6 was
\* rejected and the row is as it was
C20_Witness ==
  \E c \in Slots :
    /\ calls[c].proc = "reviews.update" /\ calls[c].pc = "done"
    /\ calls[c].user = Some(1)
    /\ calls[c].input.rating = Some(6)
    /\ calls[c].outcome.code = "BAD_REQUEST"
    /\ \E r \in tables.reviews : r.userId = 1 /\ r.restaurantId = 1 /\ r.rating = 5

\* the database ids of the countries whose alpha2 is that of the entry of the
\* static list with the given id; empty when the entry or the row is missing
\* or there is no connection
DatabaseCountryIds(countryId) ==
  {d.id : d \in {e \in dbCountries :
                   /\ dbAvailable
                   /\ \E i \in DOMAIN countriesData :
                        countriesData[i].id = countryId /\ countriesData[i].alpha2 = e.alpha2}}

\* C21: an answered restaurants.importFromGoogleMaps whose countryId is absent
\* from the static country list, or whose alpha2 has no database country, was
\* rejected with BAD_REQUEST and sent neither the duplicate check nor the
\* insert; and every row an import created has as countryId the database id of
\* the country with the alpha2 of the input's entry, never the id of the list.
C21_ImportResolvesCountryFirst ==
  /\ \A c \in Slots :
       LET call == calls[c]
           resolved == DatabaseCountryIds(call.input.countryId)
       IN (call.proc = "restaurants.importFromGoogleMaps" /\ IsSome(call.user)
           /\ call.pc = "done") =>
            /\ resolved = {} =>
                 /\ call.outcome.status = "error"
                 /\ call.outcome.code = "BAD_REQUEST"
                 /\ \A i \in DOMAIN call.ops : call.ops[i].table # "restaurants"
            /\ \A r \in tables.restaurants :
                 r.id \in InsertedIds(call, "restaurants") => r.countryId \in resolved
  /\ \A r \in ImportedRows : r.countryId \in {d.id : d \in dbCountries}

\* an import with countryId 3, the entry SG of the list, created a row with
\* countryId 7, the id of SG in the database
C21_Witness ==
  \E c \in Slots :
    /\ calls[c].proc = "restaurants.importFromGoogleMaps" /\ calls[c].pc = "done"
    /\ calls[c].input.countryId = 3
    /\ calls[c].outcome.status = "ok"
    /\ \E r \in tables.restaurants :
         r.id \in InsertedIds(calls[c], "restaurants") /\ r.countryId = 7

\* C22: an answered auth.logout, of an authenticated or an unauthenticated
\* caller, has called clearCookie exactly once, for the session cookie name,
\* with httpOnly true, path "/", sameSite "Lax" and secure equal to the
\* production flag, has sent nothing to the database and returned
\* { success: true }.
C22_LogoutClearsCookie ==
  \A c \in Slots :
    LET call == calls[c]
    IN (call.proc = "auth.logout" /\ call.pc # "idle") =>
         /\ call.pc = "done"
         /\ Len(call.cleared) = 1
         /\ call.cleared[1].name = COOKIE_NAME
         /\ call.cleared[1].options =
              [httpOnly |-> TRUE, path |-> "/", sameSite |-> "Lax", secure |-> call.production]
         /\ call.outcome.status = "ok"
         /\ call.outcome.success = Some(TRUE)
         /\ call.ops = <<>>

\* an unauthenticated caller logged out in production: one cookie cleared,
\* with secure true
C22_Witness ==
  \E c \in Slots :
    /\ calls[c].proc = "auth.logout" /\ calls[c].pc = "done"
    /\ calls[c].user = None
    /\ calls[c].production
    /\ Len(calls[c].cleared) = 1
    /\ calls[c].cleared[1].options.secure

\* the host of the URL is goo.gl or maps.app.goo.gl, with or without a
\* leading "www.", or a subdomain of one of them
OnShortenerDomain(u) ==
  /\ IsSome(URLParse(u))
  /\ LET host == StripWww(Get(URLParse(u)).hostname)
     IN \E h \in {"goo.gl", "maps.app.goo.gl"} : host = h \/ EndsWith(host, "." \o h)

\* C23: a run on an accepted URL whose host is on the link-shortener domain
\* enters the short-link resolver before it enters the extractor: the
\* extractor never runs on an unexpanded short link.
C23_ShortLinksAreExpanded ==
  \A i \in DOMAIN stages :
    (stages[i] = "Extracting" /\ OnShortenerDomain(url)) =>
      \E j \in 1..(i - 1) : stages[j] = "Resolving"

\* the restaurants that visits name
VisitedRestaurants == {v.restaurantId : v \in tables.visits}

\* C24: in every state reached by visits.markVisited, visits.createOrUpdate,
\* visits.delete and visits.unmarkVisited calls, every user participates in at
\* most one visit for every restaurant (so that a repeated createOrUpdate
\* finds the visit of the first and adds none).
C24_OneVisitPerUserAndRestaurant ==
  \A u \in Users, r \in VisitedRestaurants : Cardinality(VisitsOf(tables, u, r)) <= 1

GroupsHaveOwner ==
  \A g \in tables.groups :
    \E m \in tables.groupMembers :
      m.groupId = g.id /\ m.userId = g.creatorId /\ m.role = "owner"

\* no (group, user) pair has more than one membership row
MembershipsAreUnique ==
  \A m1, m2 \in tables.groupMembers :
    (m1.groupId = m2.groupId /\ m1.userId = m2.userId) => m1 = m2

\* C26: in every state reached by interleaved groups.create and groups.join
\* calls, the state left by a groups.create that failed between its two
\* inserts included, every group row has a membership row with role owner for
\* its creator, and no (group, user) pair has more than one membership row.
C26_GroupsHaveOwnerAndUniqueMembers == GroupsHaveOwner /\ MembershipsAreUnique

\* the steps of the callback in the order of the handler
CallbackSteps ==
  <<"code", "credentials", "token", "accessToken", "userinfo", "id", "upsertUser",
    "createSessionToken">>

\* the steps taken are the first steps of the handler in order, and none was
\* taken after a failed one
StepsInOrder ==
  /\ Len(oauth.steps) <= Len(CallbackSteps)
  /\ \A i \in DOMAIN oauth.steps :
       /\ oauth.steps[i].step = CallbackSteps[i]
       /\ i < Len(oauth.steps) => oauth.steps[i].ok

\* C29: the callback sets the session cookie and redirects to "/" only after
\* every earlier step succeeded in order (code, client credentials, token
\* exchange, access token, user info, id) and the user row was persisted by
\* upsertUser; an answered request with a failed step has an error status, no
\* cookie and no redirect, and no step after the failed one was taken.
C29_CookieOnlyAfterAllSteps ==
  /\ StepsInOrder
  /\ (oauth.cookies # <<>> \/ oauth.redirect # None) =>
       /\ Len(oauth.steps) = Len(CallbackSteps)
       /\ \A i \in DOMAIN oauth.steps : oauth.steps[i].ok
       /\ oauth.openId \in oauth.users
       /\ oauth.cookies = <<[name |-> COOKIE_NAME, openId |-> oauth.openId,
                             options |-> getSessionCookieOptions(oauth.production,
                                                                 oauth.https)]>>
       /\ oauth.redirect = Some("/")
  /\ (oauth.pc = "done" /\ \E i \in DOMAIN oauth.steps : ~oauth.steps[i].ok) =>
       /\ oauth.status \in {400, 500}
       /\ oauth.cookies = <<>>
       /\ oauth.redirect = None

\* the procedures of the router that are mutations
Mutations ==
  {"restaurants.create", "restaurants.importFromGoogleMaps", "visits.markVisited",
   "visits.createOrUpdate", "visits.delete", "visits.unmarkVisited", "reviews.create",
   "reviews.update", "groups.create", "groups.join"}

\* the statements of a call that write
Writes(call) == {i \in DOMAIN call.ops : call.ops[i].op \in {"insert", "update", "delete"}}

\* C28: without a database connection no mutation of the router reports
\* success without having written, a mutation that fails in a write helper
\* fails with "Database not available" and leaves the tables as they were, and
\* upsertUser does not return normally.
C28_NoSuccessWithoutConnection ==
  ~dbAvailable =>
    /\ \A c \in Slots :
         (calls[c].pc = "done" /\ calls[c].proc \in Mutations) =>
           /\ calls[c].outcome.status = "ok" => Writes(calls[c]) # {}
           /\ tables = calls[c].at
    /\ \A i \in DOMAIN oauth.steps : oauth.steps[i].step = "upsertUser" => ~oauth.steps[i].ok

\* the calls of onCountrySelected made during the spin cycle given
SelectedDuring(cycle) == {i \in DOMAIN globe.selected : globe.selected[i].during = cycle}

\* C27: every spin eventually calls onCountrySelected, so the home page
\* always leaves the spinning state; the callback is called at most once in
\* a spin cycle, and a zoom started in an earlier spin cycle never reports
\* its country after a newer cycle has begun.
C27_EverySpinSelectsOnce ==
  /\ globe.isSpinning ~> ~globe.isSpinning
  /\ [](\A i \in DOMAIN globe.selected :
          /\ globe.selected[i].cycle = globe.selected[i].during
          /\ Cardinality(SelectedDuring(globe.selected[i].during)) = 1)

====
